---- MODULE Spec2Model ----
(***************************************************************************)
(* Admin authentication and account protection of the Furniture Mart       *)
(* backend: lockout policy, per-address rate limiter, token issuer and     *)
(* verifier, Google sign-in, refresh, and the authorization gate in front  *)
(* of the admin and catalog routes.                                        *)
(*                                                                         *)
(* Time is in milliseconds, as Date.now() gives it.  Requests are handled  *)
(* one after another: one action is one request, from the rate limiter to  *)
(* the response.                                                           *)
(***************************************************************************)
EXTENDS Integers, Sequences, FiniteSets, TLC

VARIABLES
  now,            \* Date.now()
  adminUsers,     \* the AdminUser collection
  loginAttempts,  \* the rate limiter's map: address -> {attempts, resetTime}
  resp,           \* the response of the request handled by the latest step
  failStreak,     \* history: consecutive wrong-password attempts per account
  sent,           \* history: requests of an address in its current window
  issuedToken,    \* the token issued latest that a client keeps, and when
  verified,       \* the latest call of verifyAccessToken and its outcome
  auditUp,        \* whether AuditLog.create succeeds at present
  inflight,       \* the login requests that are between two of their awaits
  trail           \* history: what clients did with the tokens they hold

vars ==
  <<now, adminUsers, loginAttempts, resp, failStreak, sent, issuedToken,
    verified, auditUp, inflight, trail>>

(***************************************************************************)
(* Bounds of the model.                                                    *)
(***************************************************************************)
\* number of clock steps a behaviour may take
MaxTicks == 2
\* requests an address may send within one window where the limit itself is
\* not the subject
FewRequests == 2
\* access-token lifetimes that pass in front of the authorization gate
MaxLifetimes == 1
\* uses of one refresh token that the history tells apart
RepeatCap == 2
\* requests one address may send within one window (the limiter's counter
\* grows with every request, also with the rejected ones)
MaxBurst == 11

(***************************************************************************)
(* Program constants.                                                      *)
(***************************************************************************)
JWT_EXPIRY == 86400
REFRESH_TOKEN_EXPIRY == 604800
LOCK_MS == 900000
LOCK_THRESHOLD == 5
RATE_WINDOW_MS == 900000
RATE_MAX_REQUESTS == 10
MIN_PASSWORD_LENGTH == 8

JWT_SECRET == "furniture-mart-secret-key-2024"
\* a refresh secret configured to the value of the access secret
REFRESH_TOKEN_SECRET_Shared == "furniture-mart-secret-key-2024"

REFRESH_TOKEN_SECRET == "furniture-mart-refresh-secret-key"

Roles == {"admin", "editor", "viewer"}

\* Date | null: a null date is -1, every real date is >= 0
NullDate == -1

\* the message of a response body: its wording, with {n} for the number the
\* handler puts into it, and that number
NoNumber == -1

Message(text, n) == [ text |-> text, n |-> n ]

Plain(text) == Message(text, NoNumber)

\* Math.ceil(ms / 1000 / 60), for ms >= 0
CeilMinutes(ms) == (ms + 59999) \div 60000

(***************************************************************************)
(* The addresses, emails and passwords that requests are drawn from.       *)
(***************************************************************************)
SeededEmail == "admin@furniture-mart.com"
AllowedNewEmail == "editor@furniture-mart.com"
StrangerEmail == "guest@example.com"
ViewerEmail == "viewer@furniture-mart.com"

\* the identities that sign in with Google
Emails == {SeededEmail, AllowedNewEmail, StrangerEmail}

\* the emails an account can have
AccountEmails == Emails \cup {ViewerEmail}

SeededPassword == "Admin@123456"
EditorPassword == "Editor@123456"
ViewerPassword == "Viewer@123456"
OAuthPassword == "google-oauth-0.x"

ALLOWED_ADMIN_EMAILS == {"admin@furniture-mart.com", "editor@furniture-mart.com"}

\* _id of the document created for an email
ObjectIdOf(email) ==
  CASE email = SeededEmail -> "oid-admin"
    [] email = AllowedNewEmail -> "oid-editor"
    [] email = ViewerEmail -> "oid-viewer"
    [] OTHER -> "oid-guest"

(***************************************************************************)
(* bcrypt, as the pre-save hook and comparePassword use it.                *)
(***************************************************************************)
BcryptHash(plain) == [bcrypt |-> plain]

BcryptCompare(password, digest) == digest = BcryptHash(password)

(***************************************************************************)
(* The admin user collection: a set of documents.                          *)
(***************************************************************************)
NewAdminUser(name, email, password, role, isActive) ==
  [ _id |-> ObjectIdOf(email), name |-> name, email |-> email,
    password |-> BcryptHash(password), role |-> role, isActive |-> isActive,
    lastLogin |-> NullDate, loginAttempts |-> 0, isLocked |-> FALSE,
    lockedUntil |-> NullDate ]

NoAdmin == [ _id |-> "null" ]

FindOne(db, email) ==
  IF \E d \in db : d.email = email
    THEN CHOOSE d \in db : d.email = email
    ELSE NoAdmin

FindById(db, id) ==
  IF \E d \in db : d._id = id
    THEN CHOOSE d \in db : d._id = id
    ELSE NoAdmin

\* SaveLoaded that adds an increment of loginAttempts to the stored value
SaveLoaded_Increments(db, loaded, doc) ==
  { IF d._id = doc._id
      THEN [ f \in DOMAIN d |->
               IF f = "loginAttempts" /\ doc[f] = loaded[f] + 1 THEN d[f] + 1
               ELSE IF doc[f] /= loaded[f] THEN doc[f]
               ELSE d[f] ]
      ELSE d : d \in db }

\* save() of a loaded document: the modified paths are written to the stored
\* document of that _id
SaveLoaded(db, loaded, doc) ==
  { IF d._id = doc._id
      THEN [ f \in DOMAIN d |-> IF doc[f] /= loaded[f] THEN doc[f] ELSE d[f] ]
      ELSE d : d \in db }

\* a collection without the unique index on email
InsertFails_NoIndex(db, doc) == FALSE

\* save() of a new document: the unique index on email rejects a duplicate
InsertFails(db, doc) == \E d \in db : d.email = doc.email

Insert(db, doc) == db \cup {doc}

(***************************************************************************)
(* jsonwebtoken.  A token is its header algorithm, its payload and the MAC *)
(* of the payload under the signing secret; a string that is no JWT at all *)
(* has wellFormed = FALSE.                                                 *)
(***************************************************************************)
NullPayload == [ isNull |-> TRUE ]

Mac(secret, payload) == [ key |-> secret, over |-> payload ]

JwtSign(payload, secret, expiresIn, t) ==
  LET iat == t \div 1000
      claims == [ adminId |-> payload.adminId, email |-> payload.email,
                  role |-> payload.role, iat |-> iat, exp |-> iat + expiresIn ]
  IN [ wellFormed |-> TRUE, alg |-> "HS256", payload |-> claims,
       sig |-> Mac(secret, claims) ]

\* the error jwt.verify throws, or "ok"
JwtVerifyError(token, secret, algorithms, t) ==
  IF ~token.wellFormed THEN "JsonWebTokenError"
  ELSE IF token.alg \notin algorithms THEN "JsonWebTokenError"
  ELSE IF token.sig /= Mac(secret, token.payload) THEN "JsonWebTokenError"
  ELSE IF (t \div 1000) >= token.payload.exp THEN "TokenExpiredError"
  ELSE "ok"

generateAccessToken(adminId, email, role, t) ==
  JwtSign([adminId |-> adminId, email |-> email, role |-> role],
          JWT_SECRET, JWT_EXPIRY, t)

generateRefreshToken(adminId, email, role, t) ==
  JwtSign([adminId |-> adminId, email |-> email, role |-> role],
          REFRESH_TOKEN_SECRET, REFRESH_TOKEN_EXPIRY, t)

\* CaughtAccessError that lets the expiry error through
CaughtAccessError_RethrowsExpired(error) ==
  [ threw |-> error = "TokenExpiredError", value |-> NullPayload ]

\* the catch block of verifyAccessToken: every error ends in return null
CaughtAccessError(error) ==
  IF error = "TokenExpiredError" THEN [ threw |-> FALSE, value |-> NullPayload ]
  ELSE IF error = "JsonWebTokenError"
    THEN [ threw |-> FALSE, value |-> NullPayload ]
  ELSE [ threw |-> FALSE, value |-> NullPayload ]

\* a call of verifyAccessToken: whether it threw, and what it returned
verifyAccessTokenCall(token, t) ==
  LET error == JwtVerifyError(token, JWT_SECRET, {"HS256"}, t)
  IN IF error = "ok" THEN [ threw |-> FALSE, value |-> token.payload ]
                     ELSE CaughtAccessError(error)

verifyAccessToken(token, t) == verifyAccessTokenCall(token, t).value

\* verifyRefreshToken that gives a refresh token the lifetime of an access
\* token
verifyRefreshToken_AccessLifetime(token, t) ==
  IF JwtVerifyError(token, REFRESH_TOKEN_SECRET, {"HS256"}, t) = "ok"
       /\ (t \div 1000) < token.payload.iat + JWT_EXPIRY
    THEN token.payload
    ELSE NullPayload

verifyRefreshToken(token, t) ==
  IF JwtVerifyError(token, REFRESH_TOKEN_SECRET, {"HS256"}, t) = "ok"
    THEN token.payload
    ELSE NullPayload

\* no token: the field of a response that carries none
NoToken ==
  [ wellFormed |-> FALSE, alg |-> "none", payload |-> NullPayload,
    sig |-> Mac("none", NullPayload) ]

(***************************************************************************)
(* The rate limiter: an in-memory map from address to {attempts,           *)
(* resetTime}.  The result is the map after the request and whether next() *)
(* was called.                                                             *)
(***************************************************************************)
\* RateDelete that leaves the entry in the map
RateDelete_Keeps(store, ip) == store

RateDelete(store, ip) == [ i \in DOMAIN store \ {ip} |-> store[i] ]

\* RatePut that stores nothing
RatePut_Forgets(store, ip, entry) == store

RatePut(store, ip, entry) ==
  [ i \in DOMAIN store \cup {ip} |-> IF i = ip THEN entry ELSE store[i] ]

\* OverLimit that refuses the request that reaches the limit
OverLimit_AtLimit(attempts, maxRequests) == attempts >= maxRequests

\* the counter, already incremented for this request, has exceeded the limit
OverLimit(attempts, maxRequests) == attempts > maxRequests

rateLimitMiddleware(store, ip, t, windowMs, maxRequests) ==
  LET cleaned == IF ip \in DOMAIN store /\ store[ip].resetTime < t
                   THEN RateDelete(store, ip)
                   ELSE store
  IN IF ip \notin DOMAIN cleaned
       THEN [ store |-> RatePut(cleaned, ip,
                          [attempts |-> 1, resetTime |-> t + windowMs]),
              next |-> TRUE, message |-> Plain("") ]
       ELSE LET bumped == RatePut(cleaned, ip,
                            [ attempts |-> cleaned[ip].attempts + 1,
                              resetTime |-> cleaned[ip].resetTime ])
                over == OverLimit(bumped[ip].attempts, maxRequests)
            IN [ store |-> bumped,
                 next |-> ~over,
                 message |->
                   IF over
                     THEN Message("Too many login attempts. Please try again in {n} minutes",
                                  CeilMinutes(bumped[ip].resetTime - t))
                     ELSE Plain("") ]

\* clearRateLimit that leaves the entry
clearRateLimit_Keeps(store, ip) == store

clearRateLimit(store, ip) ==
  IF ip \in DOMAIN store THEN RateDelete(store, ip) ELSE store

(***************************************************************************)
(* express-validator: body("email").isEmail().normalizeEmail() and         *)
(* body("password").isLength({min: 8}).                                    *)
(***************************************************************************)
MixedCaseEmail == "Admin@Furniture-Mart.com"
MalformedEmail == "not-an-email"

WrongPassword == "WrongPassword"
ShortPassword == "wrong"

PasswordInputs == {SeededPassword, WrongPassword, ShortPassword}

IsEmail(raw) == raw /= MalformedEmail

NormalizeEmail(raw) == IF raw = MixedCaseEmail THEN SeededEmail ELSE raw

IsLengthMin(str, min) == Len(str) >= min

(***************************************************************************)
(* Responses.  resp is the response of the request handled by the latest   *)
(* step, with the request's inputs, whether the route handler was reached  *)
(* (handler), whether the login handler cleared an expired lock            *)
(* (lazyUnlock) and the audit records the request wrote; NoResp after a    *)
(* step that is no request.  Where a login is handled await by await,      *)
(* steps lists what the request did, in the order in which it did it.      *)
(***************************************************************************)
Audit(action, email, status) ==
  [ action |-> action, email |-> email, status |-> status ]

Route(method, path, kind, allowedRoles) ==
  [ method |-> method, path |-> path, kind |-> kind, roles |-> allowedRoles ]

NoRoute == Route("-", "-", "-", {})

\* no data.admin, no data of GET /me in the body
NoProfile == [ id |-> "null" ]

Response(op, ip, email, status, audit) ==
  [ op |-> op, ip |-> ip, email |-> email, pw |-> "-", scheme |-> "-",
    tokenIn |-> NoToken, route |-> NoRoute, status |-> status,
    handler |-> TRUE, lazyUnlock |-> FALSE, accessToken |-> NoToken,
    refreshToken |-> NoToken, audit |-> audit, message |-> Plain(""),
    data |-> NoProfile, steps |-> << >> ]

NoResp == [Response("none", "-", "-", 0, << >>) EXCEPT !.handler = FALSE]

(***************************************************************************)
(* Audit writes.  The handlers list in resp.audit the records they hand to *)
(* logAuditEvent, in the order of the calls; auditWrites is what becomes   *)
(* of the response when AuditLog.create accepts them or throws.            *)
(***************************************************************************)
\* logAuditEvent that lets the error of AuditLog.create through
logAuditEvent_Rethrows(record, accepts) ==
  [ appended |-> IF accepts THEN <<record>> ELSE << >>, threw |-> ~accepts ]

\* one call of logAuditEvent: the records it appended, and whether it threw
logAuditEvent(record, accepts) ==
  IF accepts THEN [ appended |-> <<record>>, threw |-> FALSE ]
             ELSE [ appended |-> << >>, threw |-> FALSE ]

\* the response after the audit writes of the request: an error that leaves
\* logAuditEvent leaves the handler too, and asyncHandler hands it to
\* errorHandler, which answers 500
auditWrites(r, accepts) ==
  LET calls == [ i \in DOMAIN r.audit |-> logAuditEvent(r.audit[i], accepts) ]
      stored(record) == logAuditEvent(record, accepts).appended /= << >>
  IN IF \E i \in DOMAIN calls : calls[i].threw
       THEN [r EXCEPT !.status = 500, !.accessToken = NoToken,
                      !.refreshToken = NoToken, !.audit = << >>,
                      !.message = Plain("Internal server error"),
                      !.data = NoProfile]
       ELSE [r EXCEPT !.audit = SelectSeq(r.audit, stored)]

(***************************************************************************)
(* POST /auth/login, behind the rate limiter.  The result is the           *)
(* collection, the rate-limit map and the response after the handler.      *)
(***************************************************************************)
\* LockStillHeld that never lets a lock expire
LockStillHeld_NeverExpires(admin, t) == admin.isLocked

\* the lock check: a lock that has not expired is answered 423
\* LockStillHeld that lets every attempt through to the password check
LockStillHeld_Ignored(admin, t) == FALSE

LockStillHeld(admin, t) ==
  admin.isLocked /\ admin.lockedUntil /= NullDate /\ admin.lockedUntil > t

\* an expired lock is cleared on the document in hand
LazyUnlock(admin) ==
  IF admin.isLocked
    THEN [admin EXCEPT !.isLocked = FALSE, !.lockedUntil = NullDate,
                       !.loginAttempts = 0]
    ELSE admin

\* FailedPassword that locks one failure late
FailedPassword_LocksLate(admin, t) ==
  LET bumped == [admin EXCEPT !.loginAttempts = @ + 1]
  IN IF bumped.loginAttempts > LOCK_THRESHOLD
       THEN [bumped EXCEPT !.isLocked = TRUE, !.lockedUntil = t + LOCK_MS]
       ELSE bumped

\* the failed-password branch: the counter is incremented and the account is
\* locked when the counter reaches the threshold
FailedPassword(admin, t) ==
  LET bumped == [admin EXCEPT !.loginAttempts = @ + 1]
  IN IF bumped.loginAttempts >= LOCK_THRESHOLD
       THEN [bumped EXCEPT !.isLocked = TRUE, !.lockedUntil = t + LOCK_MS]
       ELSE bumped

\* SuccessfulPassword that forgets the counter
SuccessfulPassword_NoReset(admin, t) ==
  [admin EXCEPT !.lastLogin = t]

\* the success branch: counter reset and lastLogin
SuccessfulPassword(admin, t) ==
  [admin EXCEPT !.loginAttempts = 0, !.lastLogin = t]

\* data.admin of the login responses
AdminData(admin) ==
  [ id |-> admin._id, name |-> admin.name, email |-> admin.email,
    role |-> admin.role ]

\* the message after a wrong password, from the document as it was saved
FailedMessage(failed) ==
  IF failed.isLocked
    THEN Plain("Too many failed login attempts. Account locked for 15 minutes")
    ELSE Message("Invalid email or password. {n} attempts remaining",
                 LOCK_THRESHOLD - failed.loginAttempts)

loginHandler(db, store, t, ip, rawEmail, password) ==
  LET email == NormalizeEmail(rawEmail)
      loaded == FindOne(db, email)
      same(status, audit, message) ==
        [ db |-> db, store |-> store,
          resp |-> [Response("login", ip, email, status, audit)
                      EXCEPT !.pw = password, !.message = message] ]
  IN IF ~(IsEmail(rawEmail) /\ IsLengthMin(password, MIN_PASSWORD_LENGTH))
       THEN [ db |-> db, store |-> store,
              resp |-> [Response("login", ip, rawEmail, 400,
                          <<Audit("login_attempt", rawEmail, "failed")>>)
                          EXCEPT !.pw = password,
                                 !.message = Plain("Validation failed")] ]
     ELSE IF loaded = NoAdmin
       THEN same(401, <<Audit("login_attempt", email, "failed")>>,
                 Plain("Invalid email or password"))
     ELSE IF ~loaded.isActive
       THEN same(403, <<Audit("login_attempt", email, "blocked")>>,
                 Plain("Admin account is inactive"))
     ELSE IF LockStillHeld(loaded, t)
       THEN same(423, <<Audit("login_attempt", email, "blocked")>>,
                 Message("Account is locked. Try again in {n} minutes",
                         CeilMinutes(loaded.lockedUntil - t)))
     ELSE LET admin == LazyUnlock(loaded)
          IN IF ~BcryptCompare(password, admin.password)
               THEN LET failed == FailedPassword(admin, t)
                    IN [ db |-> SaveLoaded(db, loaded, failed),
                         store |-> store,
                         resp |-> [Response("login", ip, email,
                                     IF failed.isLocked THEN 423 ELSE 401,
                                     <<Audit("login_attempt", email,
                                         IF failed.isLocked THEN "blocked"
                                                            ELSE "failed")>>)
                                     EXCEPT !.pw = password,
                                            !.lazyUnlock = loaded.isLocked,
                                            !.message =
                                               FailedMessage(failed)] ]
               ELSE LET ok == SuccessfulPassword(admin, t)
                    IN [ db |-> SaveLoaded(db, loaded, ok),
                         store |-> clearRateLimit(store, ip),
                         resp |-> [Response("login", ip, email, 200,
                                     <<Audit("login_success", email, "success")>>)
                                     EXCEPT !.pw = password,
                                            !.lazyUnlock = loaded.isLocked,
                                            !.accessToken =
                                               generateAccessToken(ok._id,
                                                 ok.email, ok.role, t),
                                            !.refreshToken =
                                               generateRefreshToken(ok._id,
                                                 ok.email, ok.role, t),
                                            !.message =
                                               Plain("Login successful"),
                                            !.data = AdminData(ok)] ]

\* the route: loginRateLimiter, then the handler
loginRoute(db, store, t, ip, rawEmail, password, accepts) ==
  LET rl == rateLimitMiddleware(store, ip, t, RATE_WINDOW_MS, RATE_MAX_REQUESTS)
      h == loginHandler(db, rl.store, t, ip, rawEmail, password)
  IN IF rl.next
       THEN [ db |-> h.db, store |-> h.store,
              resp |-> auditWrites(h.resp, accepts) ]
       ELSE [ db |-> db, store |-> rl.store,
              resp |-> [Response("login", ip, rawEmail, 429, << >>)
                          EXCEPT !.pw = password, !.handler = FALSE,
                                 !.message = rl.message] ]

(***************************************************************************)
(* POST /auth/refresh.  The collection is only read.                      *)
(***************************************************************************)
\* a body without a refreshToken string
MissingToken ==
  [ wellFormed |-> FALSE, alg |-> "missing", payload |-> NullPayload,
    sig |-> Mac("none", NullPayload) ]

\* a string that is no JWT
GarbageToken ==
  [ wellFormed |-> FALSE, alg |-> "garbage", payload |-> NullPayload,
    sig |-> Mac("none", NullPayload) ]

\* RefreshRefused that looks only for the account
RefreshRefused_ActiveUnchecked(admin) == admin = NoAdmin

\* RefreshRefused that also refuses a locked account
RefreshRefused_LockChecked(admin) ==
  admin = NoAdmin \/ ~admin.isActive \/ admin.isLocked

\* the account of the token is gone or inactive
RefreshRefused(admin) == admin = NoAdmin \/ ~admin.isActive

\* refreshHandler that signs the new access token with the email and role of
\* the refresh token's payload
refreshHandler_TokenRole(db, t, ip, refreshToken) ==
  LET decoded == verifyRefreshToken(refreshToken, t)
      admin == FindById(db, decoded.adminId)
      answer(email, status, audit, message) ==
        [Response("refresh", ip, email, status, audit)
           EXCEPT !.tokenIn = refreshToken, !.message = Plain(message)]
  IN IF refreshToken = MissingToken
       THEN answer("unknown", 400, << >>, "Validation failed")
     ELSE IF decoded = NullPayload
       THEN answer("unknown", 401,
                   <<Audit("token_refresh", "unknown", "failed")>>,
                   "Invalid or expired refresh token")
     ELSE IF admin = NoAdmin \/ ~admin.isActive
       THEN answer(decoded.email, 403,
                   <<Audit("token_refresh", decoded.email, "failed")>>,
                   "Admin account not found or inactive")
     ELSE [answer(admin.email, 200,
                  <<Audit("token_refresh", admin.email, "success")>>,
                  "Token refreshed successfully")
             EXCEPT !.accessToken =
                      generateAccessToken(decoded.adminId, decoded.email,
                                          decoded.role, t)]

refreshHandler(db, t, ip, refreshToken) ==
  LET decoded == verifyRefreshToken(refreshToken, t)
      admin == FindById(db, decoded.adminId)
      answer(email, status, audit, message) ==
        [Response("refresh", ip, email, status, audit)
           EXCEPT !.tokenIn = refreshToken, !.message = Plain(message)]
  IN IF refreshToken = MissingToken
       THEN answer("unknown", 400, << >>, "Validation failed")
     ELSE IF decoded = NullPayload
       THEN answer("unknown", 401,
                   <<Audit("token_refresh", "unknown", "failed")>>,
                   "Invalid or expired refresh token")
     ELSE IF RefreshRefused(admin)
       THEN answer(decoded.email, 403,
                   <<Audit("token_refresh", decoded.email, "failed")>>,
                   "Admin account not found or inactive")
     ELSE [answer(admin.email, 200,
                  <<Audit("token_refresh", admin.email, "success")>>,
                  "Token refreshed successfully")
             EXCEPT !.accessToken =
                      generateAccessToken(admin._id, admin.email, admin.role, t)]

refreshRoute(db, t, ip, refreshToken, accepts) ==
  auditWrites(refreshHandler(db, t, ip, refreshToken), accepts)

(***************************************************************************)
(* POST /auth/logout.  No middleware of the auth router sets req.email, so *)
(* the record is written for "unknown"; the Authorization header and the   *)
(* refresh token of the request are not read.                              *)
(***************************************************************************)
logoutHandler(ip, header) ==
  [Response("logout", ip, "unknown", 200,
            <<Audit("logout", "unknown", "success")>>)
     EXCEPT !.scheme = header.scheme, !.tokenIn = header.token,
            !.message = Plain("Logout successful")]

logoutRoute(ip, header, accepts) == auditWrites(logoutHandler(ip, header), accepts)

(***************************************************************************)
(* GET /auth/me.  The handler reads req.adminId, which adminAuthMiddleware *)
(* sets; the auth router mounts no middleware, neither on the router nor   *)
(* on this route, so the handler runs on the request as Express made it.   *)
(***************************************************************************)
\* a property of the request that nothing has set
Undefined == "undefined"

\* the request as it reaches a handler of the auth router
authRouterRequest(header) ==
  [ authorization |-> header, adminId |-> Undefined, email |-> Undefined,
    role |-> Undefined ]

\* data of the 200 response of GET /me
MeData(admin) ==
  [ id |-> admin._id, name |-> admin.name, email |-> admin.email,
    role |-> admin.role, isActive |-> admin.isActive,
    lastLogin |-> admin.lastLogin ]

meHandler(db, ip, req) ==
  LET admin == FindById(db, req.adminId)
      answer(status, message) ==
        [Response("me", ip, "-", status, << >>)
           EXCEPT !.scheme = req.authorization.scheme,
                  !.tokenIn = req.authorization.token,
                  !.message = Plain(message)]
  IN IF admin = NoAdmin THEN answer(404, "Admin not found")
     ELSE [answer(200, "") EXCEPT !.data = MeData(admin)]

(***************************************************************************)
(* POST /auth/google, behind the rate limiter.  A Google ID token is what  *)
(* verifyIdToken makes of it: it throws, or gives a payload with or        *)
(* without an email.                                                       *)
(***************************************************************************)
GoogleIdToken(kind, email) == [ kind |-> kind, email |-> email ]

GoogleTokenInputs ==
  { GoogleIdToken("missing", "-"), GoogleIdToken("invalid", "-"),
    GoogleIdToken("noEmail", "-") }
    \cup { GoogleIdToken("verified", e) : e \in Emails }

\* NewGoogleAdmin that gives the schema's default role
NewGoogleAdmin_DefaultRole(email) ==
  NewAdminUser("Google User", email, OAuthPassword, "editor", TRUE)

\* the account created for a Google identity that has none
NewGoogleAdmin(email) ==
  NewAdminUser("Google User", email, OAuthPassword, "admin", TRUE)

googleHandler(db, store, t, ip, token) ==
  LET email == token.email
      found == FindOne(db, email)
      created == NewGoogleAdmin(email)
      same(mail, status, audit, message) ==
        [ db |-> db, store |-> store,
          resp |-> [Response("google", ip, mail, status, audit)
                      EXCEPT !.message = Plain(message)] ]
  IN IF token.kind = "missing"
       THEN same("unknown", 400, << >>, "Validation failed")
     ELSE IF token.kind = "invalid"
       THEN same("unknown", 401, <<Audit("google_oauth", "unknown", "failed")>>,
                 "Invalid token")
     ELSE IF token.kind = "noEmail"
       THEN same("unknown", 401, <<Audit("google_oauth", "unknown", "failed")>>,
                 "Email not available from Google account")
     ELSE IF found = NoAdmin /\ email \notin ALLOWED_ADMIN_EMAILS
       THEN same(email, 403, <<Audit("google_oauth", email, "blocked")>>,
                 "Email not authorized to access admin panel")
     ELSE IF found = NoAdmin /\ InsertFails(db, created)
       THEN same(email, 401, <<Audit("google_oauth", "unknown", "failed")>>,
                 "Google authentication failed")
     ELSE LET db1 == IF found = NoAdmin THEN Insert(db, created) ELSE db
              admin == IF found = NoAdmin THEN created ELSE found
              audit1 == IF found = NoAdmin
                          THEN <<Audit("google_oauth", email, "success")>>
                          ELSE << >>
          IN IF ~admin.isActive
               THEN [ db |-> db1, store |-> store,
                      resp |-> [Response("google", ip, email, 403,
                                  audit1 \o <<Audit("google_oauth", email,
                                                    "blocked")>>)
                                  EXCEPT !.message =
                                     Plain("Admin account is inactive")] ]
               ELSE LET ok == [admin EXCEPT !.lastLogin = t,
                                            !.loginAttempts = 0]
                    IN [ db |-> SaveLoaded(db1, admin, ok),
                         store |-> clearRateLimit(store, ip),
                         resp |-> [Response("google", ip, email, 200,
                                     audit1 \o <<Audit("google_oauth", email,
                                                       "success")>>)
                                     EXCEPT !.accessToken =
                                               generateAccessToken(ok._id,
                                                 ok.email, ok.role, t),
                                            !.refreshToken =
                                               generateRefreshToken(ok._id,
                                                 ok.email, ok.role, t),
                                            !.message =
                                               Plain("Google login successful"),
                                            !.data = AdminData(ok)] ]

\* the route: loginRateLimiter, then the handler
googleRoute(db, store, t, ip, token, accepts) ==
  LET rl == rateLimitMiddleware(store, ip, t, RATE_WINDOW_MS, RATE_MAX_REQUESTS)
      h == googleHandler(db, rl.store, t, ip, token)
  IN IF rl.next
       THEN [ db |-> h.db, store |-> h.store,
              resp |-> auditWrites(h.resp, accepts) ]
       ELSE [ db |-> db, store |-> rl.store,
              resp |-> [Response("google", ip, "unknown", 429, << >>)
                          EXCEPT !.handler = FALSE, !.message = rl.message] ]

(***************************************************************************)
(* The authorization gate: adminAuthMiddleware, then the route's role      *)
(* middleware, then the route handler.                                     *)
(***************************************************************************)
\* an Authorization header: absent (scheme "none"), or "<scheme> <token>"
AuthHeader(scheme, token) == [ scheme |-> scheme, token |-> token ]

NoHeader == AuthHeader("none", NoToken)

\* adminAuthMiddleware that looks the account of the token up and refuses a
\* token whose account is gone, inactive, locked or of another role
adminAuthMiddleware_ChecksAccount(header, t) ==
  LET decoded == verifyAccessToken(header.token, t)
      admin == FindById(adminUsers, decoded.adminId)
  IN IF header.scheme /= "Bearer"
       THEN [ status |-> 401, role |-> "-", email |-> "-", adminId |-> "-",
              message |-> Plain("Missing or invalid authorization header") ]
     ELSE IF decoded = NullPayload
       THEN [ status |-> 401, role |-> "-", email |-> "-", adminId |-> "-",
              message |-> Plain("Invalid or expired token") ]
     ELSE IF admin = NoAdmin
       THEN [ status |-> 401, role |-> "-", email |-> "-", adminId |-> "-",
              message |-> Plain("Invalid or expired token") ]
     ELSE IF ~admin.isActive \/ admin.isLocked \/ admin.role /= decoded.role
       THEN [ status |-> 401, role |-> "-", email |-> "-", adminId |-> "-",
              message |-> Plain("Invalid or expired token") ]
     ELSE [ status |-> 0, role |-> decoded.role, email |-> decoded.email,
            adminId |-> decoded.adminId, message |-> Plain("") ]

\* the request after the middleware: status 0 means next() was called
adminAuthMiddleware(header, t) ==
  LET decoded == verifyAccessToken(header.token, t)
  IN IF header.scheme /= "Bearer"
       THEN [ status |-> 401, role |-> "-", email |-> "-", adminId |-> "-",
              message |-> Plain("Missing or invalid authorization header") ]
     ELSE IF decoded = NullPayload
       THEN [ status |-> 401, role |-> "-", email |-> "-", adminId |-> "-",
              message |-> Plain("Invalid or expired token") ]
     ELSE [ status |-> 0, role |-> decoded.role, email |-> decoded.email,
            adminId |-> decoded.adminId, message |-> Plain("") ]

\* authorizeRole that looks only for a role
authorizeRole_AnyRole(allowedRoles, role) == role /= "-"

\* authorizeRole(...allowedRoles): TRUE when next() is called
authorizeRole(allowedRoles, role) ==
  IF role = "-" THEN FALSE ELSE role \in allowedRoles

adminOnly == {"admin"}

\* editorOrAdmin that admits the viewer
editorOrAdmin_WithViewer == {"admin", "editor", "viewer"}

editorOrAdmin == {"admin", "editor"}

\* a route that has no role middleware behind adminAuthMiddleware
anyAuthenticated == Roles

\* routes/admin.ts
AdminRoutes ==
  { Route("POST", "/admin/products", "catalogWrite", editorOrAdmin),
    Route("PUT", "/admin/products/:id", "catalogWrite", editorOrAdmin),
    Route("DELETE", "/admin/products/:id", "catalogWrite", editorOrAdmin),
    Route("POST", "/admin/products/bulk-delete", "catalogBulk", adminOnly),
    Route("POST", "/admin/categories", "catalogWrite", editorOrAdmin),
    Route("PUT", "/admin/categories/:id", "catalogWrite", editorOrAdmin),
    Route("DELETE", "/admin/categories/:id", "catalogWrite", editorOrAdmin),
    Route("GET", "/admin/profile", "profile", anyAuthenticated),
    Route("PUT", "/admin/profile", "profile", anyAuthenticated),
    Route("GET", "/admin/profile/activity", "activity", adminOnly),
    Route("GET", "/admin/admins", "accountManagement", adminOnly),
    Route("POST", "/admin/admins", "accountManagement", adminOnly),
    Route("PUT", "/admin/admins/:id", "accountManagement", adminOnly),
    Route("DELETE", "/admin/admins/:id", "accountManagement", adminOnly),
    Route("GET", "/admin/stats/overview", "stats", editorOrAdmin),
    Route("GET", "/admin/stats/products", "stats", editorOrAdmin),
    Route("GET", "/admin/stats/orders", "stats", editorOrAdmin) }

\* routes/products.ts and routes/categories.ts: the routes behind the gate
CatalogRoutes ==
  { Route("POST", "/products", "catalogWrite", adminOnly),
    Route("PUT", "/products/:id", "catalogWrite", adminOnly),
    Route("DELETE", "/products/:id", "catalogWrite", adminOnly),
    Route("POST", "/categories", "catalogWrite", adminOnly),
    Route("PUT", "/categories/:id", "catalogWrite", adminOnly),
    Route("DELETE", "/categories/:id", "catalogWrite", adminOnly),
    Route("PATCH", "/categories/:id/product-count", "catalogCount",
          anyAuthenticated) }

GatedRoutes == AdminRoutes \cup CatalogRoutes

IsAdminRoute(route) == route \in AdminRoutes

gatedHandler(t, ip, route, header) ==
  LET req == adminAuthMiddleware(header, t)
      answer(status, message) ==
        [Response("gate", ip, req.email, status, << >>)
           EXCEPT !.route = route, !.tokenIn = header.token,
                  !.scheme = header.scheme, !.handler = (status = 200),
                  !.message = message]
  IN IF req.status /= 0 THEN answer(req.status, req.message)
     ELSE IF ~authorizeRole(route.roles, req.role)
       THEN answer(403, Plain("Forbidden: Required role(s) {allowedRoles}. Your role: {role}"))
     ELSE answer(200, Plain(""))

(***************************************************************************)
(* State after construction: the seeded administrator, an empty rate-limit *)
(* map.                                                                    *)
(***************************************************************************)
ClientAddress == "10.0.0.1"
OtherAddress == "10.0.0.2"

Addresses == {ClientAddress, OtherAddress}

EmptyStore == [ i \in {} |-> [attempts |-> 0, resetTime |-> 0] ]

StreakCap == LOCK_THRESHOLD + 1

TickMs == LOCK_MS \div 2

NoStreak == [ n |-> 0, clean |-> TRUE, over |-> FALSE ]

NoneSent == [ first |-> 0, n |-> 0, cleared |-> FALSE, spent |-> FALSE ]

NotIssued == [ jwt |-> NoToken, issuedAt |-> NullDate ]

NotVerified ==
  [ done |-> FALSE, tokenIn |-> NoToken, at |-> NullDate, threw |-> FALSE,
    value |-> NullPayload ]

\* the login requests that can be in progress at the same time
Slots == {"first", "second"}

\* no request in the slot
Idle ==
  [ pc |-> "idle", ip |-> "-", rawEmail |-> "-", password |-> "-",
    loaded |-> NoAdmin, doc |-> NoAdmin, answer |-> NoResp ]

\* no login request is between two awaits
NoneInFlight == [ r \in Slots |-> Idle ]

\* no client has used a token or met the rate limiter yet
NotRefused == [ at |-> NullDate, minutes |-> NoNumber ]

NoTrail ==
  [ refreshed |-> NoToken, times |-> 0, loggedOut |-> NoToken,
    passed |-> [ i \in Addresses |-> << >> ],
    refused |-> [ i \in Addresses |-> NotRefused ],
    followed |-> [ i \in Addresses |-> NotRefused ],
    compared |-> 0 ]

Init ==
  /\ now = 0
  /\ adminUsers = { NewAdminUser("Admin User", SeededEmail, SeededPassword,
                                 "admin", TRUE) }
  /\ loginAttempts = EmptyStore
  /\ resp = NoResp
  /\ failStreak = [ e \in AccountEmails |-> NoStreak ]
  /\ sent = [ i \in Addresses |-> NoneSent ]
  /\ issuedToken = NotIssued
  /\ verified = NotVerified
  /\ auditUp = TRUE
  /\ inflight = NoneInFlight
  /\ trail = NoTrail

\* the address may still send a request: its counter stays within the cap
MaySend(ip, cap) ==
  IF ip \in DOMAIN loginAttempts
    THEN loginAttempts[ip].resetTime < now
           \/ loginAttempts[ip].attempts < cap
    ELSE TRUE

\* failStreak[e]: the run of wrong-password login attempts for the account of
\* e that the rate limiter admitted one after another, counted from an attempt
\* that found the account unlocked with loginAttempts = 0.  n is its length;
\* clean says that every attempt of the run passed input validation and found
\* the account active; over says that another login attempt for e (a correct
\* password, a Google sign-in) has ended the run.
StreakAfterLogin(streak, admitted, loaded, rawEmail, password) ==
  LET run == IF streak[loaded.email].over THEN NoStreak
                                          ELSE streak[loaded.email]
      counts == IsEmail(rawEmail)
                  /\ IsLengthMin(password, MIN_PASSWORD_LENGTH)
                  /\ loaded.isActive
  IN IF ~admitted \/ loaded = NoAdmin THEN streak
     ELSE IF BcryptCompare(password, loaded.password)
       THEN [streak EXCEPT ![loaded.email] = [run EXCEPT !.over = run.n > 0]]
     ELSE IF run.n >= 1
       THEN [streak EXCEPT ![loaded.email] =
               [ n |-> IF run.n + 1 > StreakCap THEN StreakCap ELSE run.n + 1,
                 clean |-> run.clean /\ counts, over |-> FALSE ]]
     ELSE IF ~loaded.isLocked /\ loaded.loginAttempts = 0
       THEN [streak EXCEPT ![loaded.email] =
               [ n |-> 1, clean |-> counts, over |-> FALSE ]]
     ELSE [streak EXCEPT ![loaded.email] = NoStreak]

StreakAfterGoogle(streak, admitted, idToken) ==
  IF admitted /\ idToken.kind = "verified"
    THEN LET run == streak[idToken.email]
         IN [streak EXCEPT ![idToken.email] =
               IF run.over THEN NoStreak ELSE [run EXCEPT !.over = run.n > 0]]
    ELSE streak

\* sent[ip]: the requests ip has sent to the rate-limited endpoints since the
\* first request of its current window (first), this one included (n).  A
\* window ends RATE_WINDOW_MS after its first request, or with a successful
\* login from ip: then no window is open (n = 0) and cleared is TRUE until the
\* next request of ip; spent says, after the login and after the request that
\* follows it, that the login was the RATE_MAX_REQUESTS-th request of its
\* window.
SentAfter(history, ip, t, success) ==
  LET h == history[ip]
      goesOn == h.n > 0 /\ t <= h.first + RATE_WINDOW_MS
      count == IF goesOn THEN h.n + 1 ELSE 1
  IN [history EXCEPT ![ip] =
        IF success
          THEN [ first |-> 0, n |-> 0, cleared |-> TRUE,
                 spent |-> count = RATE_MAX_REQUESTS ]
          ELSE [ first |-> IF goesOn THEN h.first ELSE t, n |-> count,
                 cleared |-> FALSE,
                 spent |-> h.cleared /\ h.spent ]]

\* POST /auth/login, the histories of tokens and of the limiter left open
LoginCore(ip, rawEmail, password) ==
  LET rl == rateLimitMiddleware(loginAttempts, ip, now,
                                RATE_WINDOW_MS, RATE_MAX_REQUESTS)
      out == loginRoute(adminUsers, loginAttempts, now, ip, rawEmail, password,
                        auditUp)
      loaded == IF IsEmail(rawEmail)
                  THEN FindOne(adminUsers, NormalizeEmail(rawEmail))
                  ELSE NoAdmin
  IN /\ failStreak' = StreakAfterLogin(failStreak, rl.next, loaded, rawEmail,
                                      password)
     /\ adminUsers' = out.db
     /\ loginAttempts' = out.store
     /\ resp' = out.resp
     /\ sent' = SentAfter(sent, ip, now, out.resp.status = 200)
     /\ UNCHANGED <<now, verified, auditUp, inflight>>

\* POST /auth/login, the record of the issued token left open
LoginStep(ip, rawEmail, password) ==
  LoginCore(ip, rawEmail, password) /\ UNCHANGED trail

LoginRequest(ip, rawEmail, password) ==
  LoginStep(ip, rawEmail, password) /\ UNCHANGED issuedToken

\* POST /auth/login; the client keeps the access token of a 200 response
TrackedLogin(ip, rawEmail, password) ==
  /\ LoginStep(ip, rawEmail, password)
  /\ issuedToken' = IF resp'.status = 200
                      THEN [ jwt |-> resp'.accessToken, issuedAt |-> now ]
                      ELSE issuedToken

\* POST /auth/login; the client keeps the refresh token of a 200 response
KeptRefreshLogin(ip, rawEmail, password) ==
  /\ LoginStep(ip, rawEmail, password)
  /\ issuedToken' = IF resp'.status = 200
                      THEN [ jwt |-> resp'.refreshToken, issuedAt |-> now ]
                      ELSE issuedToken

\* POST /auth/google, the history of the limiter left open
GoogleCore(ip, idToken) ==
  LET rl == rateLimitMiddleware(loginAttempts, ip, now,
                                RATE_WINDOW_MS, RATE_MAX_REQUESTS)
      out == googleRoute(adminUsers, loginAttempts, now, ip, idToken, auditUp)
  IN /\ failStreak' = StreakAfterGoogle(failStreak, rl.next, idToken)
     /\ adminUsers' = out.db
     /\ loginAttempts' = out.store
     /\ resp' = out.resp
     /\ sent' = SentAfter(sent, ip, now, out.resp.status = 200)
     /\ UNCHANGED <<now, issuedToken, verified, auditUp, inflight>>

GoogleRequest(ip, idToken) == GoogleCore(ip, idToken) /\ UNCHANGED trail

\* trail.passed[ip] holds the times of the requests of ip that the rate
\* limiter has passed on to a handler since the latest successful login from
\* ip; trail.refused[ip] is the time and the announced number of minutes of
\* the 429 answer, if the latest request of ip got one; trail.followed[ip] is
\* that record of the request of ip before the latest one
TrailAfterLimiter(history, ip, t, answer) ==
  [history EXCEPT
     !.passed[ip] = IF answer.status = 200 THEN << >>
                    ELSE IF answer.handler THEN Append(@, t)
                    ELSE @,
     !.refused[ip] = IF answer.status = 429
                       THEN [ at |-> t, minutes |-> answer.message.n ]
                       ELSE NotRefused,
     !.followed[ip] = history.refused[ip]]

\* POST /auth/login, with the history of the limiter
LimitedLogin(ip, rawEmail, password) ==
  /\ LoginCore(ip, rawEmail, password)
  /\ trail' = TrailAfterLimiter(trail, ip, now, resp')
  /\ UNCHANGED issuedToken

\* POST /auth/google, with the history of the limiter
LimitedGoogle(ip, idToken) ==
  /\ GoogleCore(ip, idToken)
  /\ trail' = TrailAfterLimiter(trail, ip, now, resp')

\* POST /auth/refresh, the history of the token's use left open
RefreshStep(ip, refreshToken) ==
  /\ resp' = refreshRoute(adminUsers, now, ip, refreshToken, auditUp)
  /\ UNCHANGED <<now, adminUsers, loginAttempts, failStreak, sent,
                 issuedToken, verified, auditUp, inflight>>

RefreshRequest(ip, refreshToken) ==
  RefreshStep(ip, refreshToken) /\ UNCHANGED trail

\* trail.refreshed is the refresh token POST /auth/refresh has accepted
\* latest, trail.times the number of requests it has accepted with it since
\* it accepted another one (counted up to RepeatCap)
TrailAfterRefresh(history, refreshToken, answer) ==
  IF answer.status /= 200 THEN history
  ELSE IF refreshToken = history.refreshed
    THEN [history EXCEPT !.times = IF @ < RepeatCap THEN @ + 1 ELSE @]
  ELSE [history EXCEPT !.refreshed = refreshToken, !.times = 1]

\* POST /auth/refresh, with the history of the token's use
TrackedRefresh(ip, refreshToken) ==
  /\ RefreshStep(ip, refreshToken)
  /\ trail' = TrailAfterRefresh(trail, refreshToken, resp')

\* trail.loggedOut is the token of the Authorization header of the latest
\* logout request
LogoutRequest(ip, header) ==
  /\ resp' = logoutRoute(ip, header, auditUp)
  /\ trail' = [trail EXCEPT !.loggedOut = header.token]
  /\ UNCHANGED <<now, adminUsers, loginAttempts, failStreak, sent,
                 issuedToken, verified, auditUp, inflight>>

MeRequest(ip, header) ==
  /\ resp' = meHandler(adminUsers, ip, authRouterRequest(header))
  /\ UNCHANGED <<now, adminUsers, loginAttempts, failStreak, sent,
                 issuedToken, verified, auditUp, inflight, trail>>

(***************************************************************************)
(* POST /auth/login, await by await.  The handler runs on one thread and   *)
(* gives it up at each await; what happens between two awaits is one step. *)
(* inflight[r].pc is the await at which request r is suspended, loaded the *)
(* document findOne gave it, doc that document as the handler has changed  *)
(* it in memory, answer the response it has prepared.                      *)
(***************************************************************************)
\* the request has done `done` since its last await
Did(answer, done) == [answer EXCEPT !.steps = @ \o done]

\* generateAccessToken and generateRefreshToken for the response in hand
IssueTokens(answer, admin, t) ==
  [Did(answer, <<"tokens">>)
     EXCEPT !.accessToken =
              generateAccessToken(admin._id, admin.email, admin.role, t),
            !.refreshToken =
              generateRefreshToken(admin._id, admin.email, admin.role, t)]

\* the middlewares, up to the first await of the handler
Arrive(r, ip, rawEmail, password) ==
  LET rl == rateLimitMiddleware(loginAttempts, ip, now,
                                RATE_WINDOW_MS, RATE_MAX_REQUESTS)
      valid == IsEmail(rawEmail) /\ IsLengthMin(password, MIN_PASSWORD_LENGTH)
      atOnce == loginRoute(adminUsers, loginAttempts, now, ip, rawEmail,
                           password, auditUp).resp
      req == [Idle EXCEPT !.ip = ip, !.rawEmail = rawEmail,
                          !.password = password]
  IN /\ inflight[r].pc = "idle"
     /\ loginAttempts' = rl.store
     /\ IF ~rl.next
          THEN /\ resp' = Did(atOnce, <<"rateLimit", "respond">>)
               /\ UNCHANGED inflight
        ELSE IF ~valid
          THEN /\ resp' = NoResp
               /\ inflight' =
                    [inflight EXCEPT ![r] =
                       [req EXCEPT !.pc = "audit",
                                   !.answer = Did(atOnce, <<"rateLimit",
                                                            "validate">>)]]
          ELSE /\ resp' = NoResp
               /\ inflight' =
                    [inflight EXCEPT ![r] =
                       [req EXCEPT !.pc = "findOne",
                                   !.answer = Did(NoResp, <<"rateLimit",
                                                           "validate">>)]]
     /\ UNCHANGED <<now, adminUsers, failStreak, sent, issuedToken, verified,
                    auditUp, trail>>

\* await AdminUser.findOne resolves; the checks up to comparePassword
FindOneDone(r) ==
  LET req == inflight[r]
      loaded == FindOne(adminUsers, NormalizeEmail(req.rawEmail))
      refused == loaded = NoAdmin \/ ~loaded.isActive
                   \/ LockStillHeld(loaded, now)
      early == loginHandler(adminUsers, loginAttempts, now, req.ip,
                            req.rawEmail, req.password).resp
      done == IF loaded = NoAdmin THEN <<"findOne">>
              ELSE IF ~loaded.isActive THEN <<"findOne", "activeCheck">>
              ELSE <<"findOne", "activeCheck", "lockCheck">>
  IN /\ req.pc = "findOne"
     /\ inflight' =
          [inflight EXCEPT ![r] =
             IF refused
               THEN [req EXCEPT !.pc = "audit", !.loaded = loaded,
                                !.answer = [early EXCEPT !.steps =
                                              req.answer.steps \o done]]
               ELSE [req EXCEPT !.pc = "comparePassword", !.loaded = loaded,
                                !.doc = LazyUnlock(loaded),
                                !.answer = Did(req.answer, done)]]
     /\ resp' = NoResp
     /\ UNCHANGED <<now, adminUsers, loginAttempts, failStreak, sent,
                    issuedToken, verified, auditUp, trail>>

\* await admin.comparePassword resolves; the document is changed in memory
\* (the history of the comparisons left open)
CompareCore(r) ==
  LET req == inflight[r]
      isPasswordValid == BcryptCompare(req.password, req.doc.password)
      changed == IF isPasswordValid THEN SuccessfulPassword(req.doc, now)
                                    ELSE FailedPassword(req.doc, now)
      email == NormalizeEmail(req.rawEmail)
      answer ==
        IF isPasswordValid
          THEN [Response("login", req.ip, email, 200,
                         <<Audit("login_success", email, "success")>>)
                  EXCEPT !.pw = req.password,
                         !.lazyUnlock = req.loaded.isLocked,
                         !.message = Plain("Login successful"),
                         !.data = AdminData(changed)]
          ELSE [Response("login", req.ip, email,
                         IF changed.isLocked THEN 423 ELSE 401,
                         <<Audit("login_attempt", email,
                                 IF changed.isLocked THEN "blocked"
                                                     ELSE "failed")>>)
                  EXCEPT !.pw = req.password,
                         !.lazyUnlock = req.loaded.isLocked,
                         !.message = FailedMessage(changed)]
  IN /\ req.pc = "comparePassword"
     /\ inflight' =
          [inflight EXCEPT ![r] =
             [req EXCEPT !.pc = "save", !.doc = changed,
                         !.answer = [answer EXCEPT !.steps =
                                       req.answer.steps
                                         \o <<"comparePassword">>]]]
     /\ resp' = NoResp
     /\ UNCHANGED <<now, adminUsers, loginAttempts, failStreak, sent,
                    issuedToken, verified, auditUp>>

CompareDone(r) == CompareCore(r) /\ UNCHANGED trail

\* trail.compared is the number of passwords that comparePassword has found
\* wrong (counted up to StreakCap)
CountedCompare(r) ==
  /\ CompareCore(r)
  /\ trail' =
       [trail EXCEPT !.compared =
          IF ~BcryptCompare(inflight[r].password, inflight[r].doc.password)
               /\ @ < StreakCap
            THEN @ + 1
            ELSE @]

\* await admin.save() resolves; after a successful login, clearRateLimit
SaveDone(r) ==
  LET req == inflight[r]
      success == req.answer.status = 200
  IN /\ req.pc = "save"
     /\ adminUsers' = SaveLoaded(adminUsers, req.loaded, req.doc)
     /\ loginAttempts' = IF success THEN clearRateLimit(loginAttempts, req.ip)
                                    ELSE loginAttempts
     /\ inflight' =
          [inflight EXCEPT ![r] =
             [req EXCEPT !.pc = "audit",
                         !.answer = Did(req.answer,
                                        IF success
                                          THEN <<"save", "clearRateLimit">>
                                          ELSE <<"save">>)]]
     /\ resp' = NoResp
     /\ UNCHANGED <<now, failStreak, sent, issuedToken, verified, auditUp,
                    trail>>

\* AuditDone of a handler that generates the tokens before it writes the
\* audit record
AuditDone_TokensFirst(r) ==
  LET req == inflight[r]
      ready == IF req.answer.status = 200
                 THEN IssueTokens(req.answer, req.doc, now)
                 ELSE req.answer
  IN /\ req.pc = "audit"
     /\ inflight' =
          [inflight EXCEPT ![r] =
             [req EXCEPT !.pc = "respond",
                         !.answer = Did(auditWrites(ready, auditUp),
                                        <<"audit">>)]]
     /\ resp' = NoResp
     /\ UNCHANGED <<now, adminUsers, loginAttempts, failStreak, sent,
                    issuedToken, verified, auditUp, trail>>

\* await logAuditEvent resolves
AuditDone(r) ==
  LET req == inflight[r]
  IN /\ req.pc = "audit"
     /\ inflight' =
          [inflight EXCEPT ![r] =
             [req EXCEPT !.pc = "respond",
                         !.answer = Did(auditWrites(req.answer, auditUp),
                                        <<"audit">>)]]
     /\ resp' = NoResp
     /\ UNCHANGED <<now, adminUsers, loginAttempts, failStreak, sent,
                    issuedToken, verified, auditUp, trail>>

\* the rest of the handler: after a successful login the two tokens are
\* generated; the response is sent
Respond(r) ==
  LET req == inflight[r]
  IN /\ req.pc = "respond"
     /\ resp' =
          IF req.answer.status = 200
            THEN Did(IssueTokens(req.answer, req.doc, now), <<"respond">>)
            ELSE Did(req.answer, <<"respond">>)
     /\ inflight' = [inflight EXCEPT ![r] = Idle]
     /\ UNCHANGED <<now, adminUsers, loginAttempts, failStreak, sent,
                    issuedToken, verified, auditUp, trail>>

(***************************************************************************)
(* POST /auth/google, await by await, for a verified identity.  doc is the *)
(* document in the handler's hands: the one findOne gave it or the one it  *)
(* constructed; loaded is that document as the collection last had it.     *)
(***************************************************************************)
\* the _id of a document constructed by request r: every new AdminUser gets
\* an ObjectId of its own
NewObjectId(email, r) == ObjectIdOf(email) \o "/" \o r

\* the limiter, the validator and verifyIdToken
GoogleArrive(r, ip, idToken) ==
  LET rl == rateLimitMiddleware(loginAttempts, ip, now,
                                RATE_WINDOW_MS, RATE_MAX_REQUESTS)
      atOnce == googleRoute(adminUsers, loginAttempts, now, ip, idToken,
                            auditUp).resp
  IN /\ inflight[r].pc = "idle"
     /\ loginAttempts' = rl.store
     /\ IF ~rl.next \/ idToken.kind /= "verified"
          THEN /\ resp' = atOnce
               /\ UNCHANGED inflight
          ELSE /\ resp' = NoResp
               /\ inflight' =
                    [inflight EXCEPT ![r] =
                       [Idle EXCEPT !.pc = "googleFindOne", !.ip = ip,
                                    !.rawEmail = idToken.email,
                                    !.answer = Did(NoResp, <<"rateLimit",
                                                     "verifyIdToken">>)]]
     /\ UNCHANGED <<now, adminUsers, failStreak, sent, issuedToken, verified,
                    auditUp, trail>>

\* await AdminUser.findOne resolves; an unknown identity is checked against
\* the allow-list and a document is constructed for it
GoogleFindOneDone(r) ==
  LET req == inflight[r]
      email == req.rawEmail
      found == FindOne(adminUsers, email)
      created == [NewGoogleAdmin(email) EXCEPT !._id = NewObjectId(email, r)]
      blocked == [Response("google", req.ip, email, 403,
                           <<Audit("google_oauth", email, "blocked")>>)
                    EXCEPT !.message =
                       Plain("Email not authorized to access admin panel"),
                           !.steps = req.answer.steps \o <<"findOne">>]
  IN /\ req.pc = "googleFindOne"
     /\ inflight' =
          [inflight EXCEPT ![r] =
             IF found /= NoAdmin
               THEN [req EXCEPT !.pc = "googleSave", !.loaded = found,
                                !.doc = found,
                                !.answer = Did(req.answer, <<"findOne">>)]
             ELSE IF email \notin ALLOWED_ADMIN_EMAILS
               THEN [req EXCEPT !.pc = "googleRespond", !.answer = blocked]
             ELSE [req EXCEPT !.pc = "googleInsert", !.doc = created,
                              !.answer = Did(req.answer,
                                             <<"findOne", "create">>)]]
     /\ resp' = NoResp
     /\ UNCHANGED <<now, adminUsers, loginAttempts, failStreak, sent,
                    issuedToken, verified, auditUp, trail>>

\* await admin.save() of the constructed document resolves or rejects; a
\* rejection is caught by the handler's catch
GoogleInsertDone(r) ==
  LET req == inflight[r]
      threw == InsertFails(adminUsers, req.doc)
      caught == [Response("google", req.ip, req.rawEmail, 401,
                          <<Audit("google_oauth", "unknown", "failed")>>)
                   EXCEPT !.message = Plain("Google authentication failed"),
                          !.steps = req.answer.steps \o <<"catch">>]
  IN /\ req.pc = "googleInsert"
     /\ adminUsers' = IF threw THEN adminUsers ELSE Insert(adminUsers, req.doc)
     /\ inflight' =
          [inflight EXCEPT ![r] =
             IF threw
               THEN [req EXCEPT !.pc = "googleRespond", !.answer = caught]
               ELSE [req EXCEPT !.pc = "googleSave", !.loaded = req.doc,
                                !.answer =
                                   [Did(req.answer, <<"insert">>)
                                      EXCEPT !.audit =
                                         <<Audit("google_oauth", req.rawEmail,
                                                 "success")>>]]]
     /\ resp' = NoResp
     /\ UNCHANGED <<now, loginAttempts, failStreak, sent, issuedToken,
                    verified, auditUp, trail>>

\* the active check on the document in hand, await admin.save() of lastLogin
\* and loginAttempts, clearRateLimit and the tokens
GoogleSaveDone(r) ==
  LET req == inflight[r]
      admin == req.doc
      ok == [admin EXCEPT !.lastLogin = now, !.loginAttempts = 0]
      inactive == [Response("google", req.ip, req.rawEmail, 403,
                            req.answer.audit
                              \o <<Audit("google_oauth", req.rawEmail,
                                         "blocked")>>)
                     EXCEPT !.message = Plain("Admin account is inactive"),
                            !.steps = req.answer.steps \o <<"activeCheck">>]
      success == [Response("google", req.ip, req.rawEmail, 200,
                           req.answer.audit
                             \o <<Audit("google_oauth", req.rawEmail,
                                        "success")>>)
                    EXCEPT !.accessToken =
                              generateAccessToken(ok._id, ok.email, ok.role,
                                                  now),
                           !.refreshToken =
                              generateRefreshToken(ok._id, ok.email, ok.role,
                                                   now),
                           !.message = Plain("Google login successful"),
                           !.data = AdminData(ok),
                           !.steps = req.answer.steps
                                       \o <<"activeCheck", "save",
                                            "clearRateLimit", "tokens">>]
  IN /\ req.pc = "googleSave"
     /\ adminUsers' = IF admin.isActive
                        THEN SaveLoaded(adminUsers, req.loaded, ok)
                        ELSE adminUsers
     /\ loginAttempts' = IF admin.isActive
                           THEN clearRateLimit(loginAttempts, req.ip)
                           ELSE loginAttempts
     /\ inflight' =
          [inflight EXCEPT ![r] =
             [req EXCEPT !.pc = "googleRespond",
                         !.doc = IF admin.isActive THEN ok ELSE admin,
                         !.answer = IF admin.isActive THEN success
                                                      ELSE inactive]]
     /\ resp' = NoResp
     /\ UNCHANGED <<now, failStreak, sent, issuedToken, verified, auditUp,
                    trail>>

\* the response is sent
GoogleRespond(r) ==
  LET req == inflight[r]
  IN /\ req.pc = "googleRespond"
     /\ resp' = Did(auditWrites(req.answer, auditUp), <<"respond">>)
     /\ inflight' = [inflight EXCEPT ![r] = Idle]
     /\ UNCHANGED <<now, adminUsers, loginAttempts, failStreak, sent,
                    issuedToken, verified, auditUp, trail>>

\* AuditLog.create starts or stops to fail
AuditOutage ==
  /\ auditUp' = ~auditUp
  /\ resp' = NoResp
  /\ UNCHANGED <<now, adminUsers, loginAttempts, failStreak, sent,
                 issuedToken, verified, inflight, trail>>

GatedRequest(ip, route, header) ==
  /\ resp' = gatedHandler(now, ip, route, header)
  /\ UNCHANGED <<now, adminUsers, loginAttempts, failStreak, sent,
                 issuedToken, verified, auditUp, inflight, trail>>

\* time passes
Tick(d, horizon) ==
  /\ now + d <= horizon
  /\ now' = now + d
  /\ resp' = NoResp
  /\ UNCHANGED <<adminUsers, loginAttempts, failStreak, sent, issuedToken,
                 verified, auditUp, inflight, trail>>

\* an account is deactivated or reactivated
SetActive(email, active) ==
  /\ \E d \in adminUsers : d.email = email /\ d.isActive /= active
  /\ adminUsers' = { IF d.email = email THEN [d EXCEPT !.isActive = active]
                                        ELSE d : d \in adminUsers }
  /\ resp' = NoResp
  /\ UNCHANGED <<now, loginAttempts, failStreak, sent, issuedToken,
                 verified, auditUp, inflight, trail>>

\* the stored role of an account is changed
SetRole(email, role) ==
  /\ \E d \in adminUsers : d.email = email /\ d.role /= role
  /\ adminUsers' = { IF d.email = email THEN [d EXCEPT !.role = role]
                                        ELSE d : d \in adminUsers }
  /\ resp' = NoResp
  /\ UNCHANGED <<now, loginAttempts, failStreak, sent, issuedToken,
                 verified, auditUp, inflight, trail>>

(***************************************************************************)
(* Password logins and the lockout policy: one client address.            *)
(***************************************************************************)
\* the request bodies: every password for the seeded account, and one body
\* each for a mixed-case spelling, an unknown account and a malformed email
LoginInputs ==
  { <<SeededEmail, p>> : p \in PasswordInputs }
    \cup { <<MixedCaseEmail, SeededPassword>>, <<StrangerEmail, WrongPassword>>,
           <<MalformedEmail, WrongPassword>> }

PasswordLogin ==
  \E body \in LoginInputs :
     MaySend(ClientAddress, MaxBurst)
       /\ LoginRequest(ClientAddress, body[1], body[2])

Clock == Tick(TickMs, MaxTicks * TickMs)

Deactivation == \E b \in BOOLEAN : SetActive(SeededEmail, b)

Next ==
  \/ PasswordLogin
  \/ Clock
  \/ Deactivation

Spec == Init /\ [][Next]_vars

(***************************************************************************)
(* Lockout policy.                                                         *)
(***************************************************************************)
\* the account a login body is about, NoAdmin when there is none
Targeted(rawEmail) ==
  IF IsEmail(rawEmail) THEN FindOne(adminUsers, NormalizeEmail(rawEmail))
                       ELSE NoAdmin

ValidBody(body) ==
  IsEmail(body[1]) /\ IsLengthMin(body[2], MIN_PASSWORD_LENGTH)

\* the step is the login request `body` from ip, admitted by the rate limiter
AdmittedLogin(ip, body) ==
  LoginRequest(ip, body[1], body[2]) /\ resp'.handler

\* the attempt passes input validation and finds the account active
CountedAttempt(d, body) == ValidBody(body) /\ d.isActive

\* after a run of 5 wrong-password attempts the account is locked; with
\* countedOnly, only runs of attempts that passed validation and found the
\* account active are looked at
LockedAfterFive(countedOnly) ==
  \A d \in adminUsers :
     LET run == failStreak[d.email]
     IN run.n = LOCK_THRESHOLD /\ ~run.over /\ (countedOnly => run.clean)
        => d.isLocked

\* the attempt that follows such a run, made before lockedUntil, is answered
\* 423
SixthIsRejected(countedOnly) ==
  \A ip \in Addresses, body \in LoginInputs :
     LET d == Targeted(body[1])
     IN d /= NoAdmin
          /\ failStreak[d.email].n = LOCK_THRESHOLD /\ ~failStreak[d.email].over
          /\ now < d.lockedUntil
          /\ (countedOnly => failStreak[d.email].clean /\ CountedAttempt(d, body))
          /\ AdmittedLogin(ip, body)
        => resp'.status = 423

\* C1 as stated: for every account that starts unlocked with loginAttempts = 0,
\* after 5 consecutive wrong-password login attempts admitted by the rate
\* limiter the account has isLocked = true, and a 6th attempt made before
\* lockedUntil is answered 423, also with the correct password.
C1_AsStated ==
  [][ LockedAfterFive(FALSE)' /\ SixthIsRejected(FALSE) ]_vars

\* C1, amended: the same, for attempts that pass input validation (a valid
\* email, a password of at least 8 characters) and find the account active.
C1_LockAfterFiveCountedFailures ==
  [][ LockedAfterFive(TRUE)' /\ SixthIsRejected(TRUE) ]_vars

\* the 6th attempt carried the correct password, came after time had passed
\* and before lockedUntil, and was answered 423
C1_Witness ==
  \E d \in adminUsers :
     /\ failStreak[d.email] = [n |-> LOCK_THRESHOLD, clean |-> TRUE, over |-> TRUE]
     /\ d.isLocked /\ d.isActive /\ 0 < now /\ now < d.lockedUntil
     /\ resp.op = "login" /\ resp.email = d.email
     /\ resp.pw = SeededPassword /\ resp.status = 423

\* a login attempt with the correct password for a locked account whose
\* lockedUntil has passed
CorrectAfterExpiry(ip, body) ==
  LET d == Targeted(body[1])
  IN /\ d /= NoAdmin /\ d.isLocked /\ d.lockedUntil <= now
     /\ BcryptCompare(body[2], d.password)
     /\ LoginRequest(ip, body[1], body[2])

SucceedsUnlocked(body) ==
  LET after == FindOne(adminUsers', NormalizeEmail(body[1]))
  IN /\ resp'.status = 200
     /\ resp'.accessToken /= NoToken /\ resp'.refreshToken /= NoToken
     /\ after.loginAttempts = 0 /\ ~after.isLocked

\* the lock is cleared by no step other than a request
NoBackgroundUnlock == now' /= now => adminUsers' = adminUsers

IssuedRefreshTokens ==
  { generateRefreshToken(d._id, d.email, d.role, d.lastLogin) :
      d \in { a \in adminUsers : a.lastLogin /= NullDate } }

\* the access tokens in clients' hands: the one each account got at its last
\* login
IssuedAccessTokens ==
  { generateAccessToken(d._id, d.email, d.role, d.lastLogin) :
      d \in { a \in adminUsers : a.lastLogin /= NullDate } }

\* the tokens among `tokens` that were issued to `email`
TokensOf(tokens, email) == { token \in tokens : token.payload.email = email }

\* a body without a token, a string that is no JWT, every refresh token, and
\* the seeded account's access token in the place of a refresh token
RefreshInputs ==
  {MissingToken, GarbageToken} \cup IssuedRefreshTokens
    \cup TokensOf(IssuedAccessTokens, SeededEmail)

FedLoginInputs == { <<SeededEmail, SeededPassword>>, <<SeededEmail, WrongPassword>> }

FedGoogle ==
  \E idToken \in GoogleTokenInputs :
     MaySend(ClientAddress, FewRequests) /\ GoogleRequest(ClientAddress, idToken)

FedLogin ==
  \E body \in FedLoginInputs :
     MaySend(ClientAddress, FewRequests)
       /\ LoginRequest(ClientAddress, body[1], body[2])

FedRefresh ==
  \E refreshToken \in RefreshInputs : RefreshRequest(ClientAddress, refreshToken)

FedDeactivation == \E e \in Emails, b \in BOOLEAN : SetActive(e, b)

NextFed ==
  \/ FedGoogle
  \/ FedLogin
  \/ FedRefresh
  \/ FedDeactivation

SpecFed == Init /\ [][NextFed]_vars

\* the response carries no token
NoTokens(r) == r.accessToken = NoToken /\ r.refreshToken = NoToken

\* the account a token was issued for
HolderOf(db, token) == FindById(db, token.payload.adminId)

LoginRefusesInactive ==
  \A ip \in Addresses, body \in LoginInputs :
     LET d == Targeted(body[1])
     IN d /= NoAdmin /\ ~d.isActive /\ ValidBody(body)
          /\ LoginRequest(ip, body[1], body[2]) /\ resp'.handler
        => resp'.status = 403 /\ NoTokens(resp')

GoogleRefusesInactive ==
  \A ip \in Addresses, e \in Emails :
     LET d == FindOne(adminUsers, e)
     IN d /= NoAdmin /\ ~d.isActive
          /\ GoogleRequest(ip, GoogleIdToken("verified", e)) /\ resp'.handler
        => resp'.status = 403 /\ NoTokens(resp')

RefreshRefusesInactive ==
  \A ip \in Addresses, refreshToken \in RefreshInputs :
     LET decoded == verifyRefreshToken(refreshToken, now)
     IN decoded /= NullPayload
          /\ FindById(adminUsers, decoded.adminId) /= NoAdmin
          /\ ~FindById(adminUsers, decoded.adminId).isActive
          /\ RefreshRequest(ip, refreshToken)
        => resp'.status = 403 /\ NoTokens(resp')

TokensOnlyForActive ==
  \A token \in {resp'.accessToken, resp'.refreshToken} \ {NoToken} :
     /\ HolderOf(adminUsers', token) /= NoAdmin
     /\ HolderOf(adminUsers', token).isActive

\* C4: no endpoint issues a token for an account whose isActive is false: a
\* password login, a Google sign-in and a refresh that identify such an account
\* are answered 403 without a token, and every token a response carries is for
\* an account that is active.
C4_NoTokenForInactive ==
  [][ /\ LoginRefusesInactive
      /\ GoogleRefusesInactive
      /\ RefreshRefusesInactive
      /\ TokensOnlyForActive ]_vars

\* a refresh token issued at a login is refused once its account is inactive
C4_Witness ==
  /\ resp.op = "refresh" /\ resp.status = 403
  /\ resp.tokenIn \in IssuedRefreshTokens
  /\ HolderOf(adminUsers, resp.tokenIn) /= NoAdmin
  /\ ~HolderOf(adminUsers, resp.tokenIn).isActive

\* what the first sign-in of an allow-listed identity leaves behind
CreatesOneAdmin(ip, e) ==
  LET d == FindOne(adminUsers', e)
  IN /\ adminUsers \subseteq { a \in adminUsers' : a.email /= e }
     /\ Cardinality(adminUsers') = Cardinality(adminUsers) + 1
     /\ d /= NoAdmin /\ d.role = "admin" /\ d.isActive
     /\ d.lastLogin = now /\ d.loginAttempts = 0
     /\ resp'.status = 200
     /\ resp'.accessToken = generateAccessToken(d._id, e, "admin", now)
     /\ resp'.refreshToken = generateRefreshToken(d._id, e, "admin", now)
     /\ ip \notin DOMAIN loginAttempts'

\* C9: for a verified Google identity whose email has no local account, an
\* email outside ALLOWED_ADMIN_EMAILS is answered 403 and no account is
\* created; an allow-listed email gets exactly one new account with role admin
\* and isActive = true, and the request goes on as a successful login.
C9_GoogleFirstSignIn ==
  [][ \A ip \in Addresses, e \in Emails :
         FindOne(adminUsers, e) = NoAdmin
           /\ GoogleRequest(ip, GoogleIdToken("verified", e)) /\ resp'.handler
         => IF e \in ALLOWED_ADMIN_EMAILS
              THEN CreatesOneAdmin(ip, e)
              ELSE resp'.status = 403 /\ NoTokens(resp')
                     /\ adminUsers' = adminUsers ]_vars

\* an allow-listed identity has signed in for the first time
C9_Witness ==
  /\ resp.op = "google" /\ resp.status = 200 /\ resp.email = AllowedNewEmail
  /\ Len(resp.audit) = 2
  /\ \E d \in adminUsers : d.email = AllowedNewEmail /\ d.role = "admin"

(***************************************************************************)
(* The rate limiter in front of POST /auth/login and POST /auth/google:    *)
(* two client addresses, failing and succeeding requests, and a clock that *)
(* reaches the end of a window.                                            *)
(***************************************************************************)
\* half a window, and one millisecond more: two steps take the clock to the
\* last millisecond of a window or to the first one after it
RateTicks == { RATE_WINDOW_MS \div 2, RATE_WINDOW_MS \div 2 + 1 }

RateLoginInputs ==
  { <<StrangerEmail, WrongPassword>>, <<SeededEmail, SeededPassword>> }

RateGoogleInputs ==
  { GoogleIdToken("invalid", "-"), GoogleIdToken("verified", SeededEmail) }

RateLogin ==
  \E body \in RateLoginInputs :
     MaySend(ClientAddress, MaxBurst)
       /\ LoginRequest(ClientAddress, body[1], body[2])

RateGoogle ==
  \E idToken \in RateGoogleInputs :
     MaySend(ClientAddress, MaxBurst) /\ GoogleRequest(ClientAddress, idToken)

\* another client, whose logins fail
RateOther ==
  MaySend(OtherAddress, FewRequests)
    /\ LoginRequest(OtherAddress, StrangerEmail, WrongPassword)

RateClock ==
  \E d \in RateTicks : Tick(d, MaxTicks * (RATE_WINDOW_MS \div 2) + 1)

NextRate ==
  \/ RateLogin
  \/ RateGoogle
  \/ RateOther
  \/ RateClock

SpecRate == Init /\ [][NextRate]_vars

\* the latest step was a request to a rate-limited endpoint
RateLimited(r) == r.op \in {"login", "google"}

\* C7: with the limits of the two endpoints (10 per 15 minutes), each of the
\* first 10 requests of an address within a window reaches the handler, the
\* 11th and later ones of the window are answered 429 and reach no handler, and
\* the requests of one address do not count against another.
C7_TenPerWindow ==
  RateLimited(resp)
    => /\ sent[resp.ip].n <= RATE_MAX_REQUESTS
            => resp.handler /\ resp.status /= 429
       /\ sent[resp.ip].n > RATE_MAX_REQUESTS
            => ~resp.handler /\ resp.status = 429 /\ resp.audit = << >>
                 /\ NoTokens(resp)

\* OtherAddress is served while ClientAddress, in the same window, has had its
\* 11th request refused
C7_Witness ==
  /\ resp.ip = OtherAddress /\ resp.handler /\ resp.status = 401
  /\ sent[ClientAddress].n = RATE_MAX_REQUESTS + 1
  /\ ClientAddress \in DOMAIN loginAttempts
  /\ loginAttempts[ClientAddress].attempts = RATE_MAX_REQUESTS + 1
  /\ now <= sent[ClientAddress].first + RATE_WINDOW_MS
  /\ sent[ClientAddress].first <= sent[OtherAddress].first

\* C8: a successful login (password or Google) from an address deletes the
\* address's rate-limit entry, and the next request from that address is
\* admitted and counted as the first of a new window.
C8_SuccessClearsRateLimit ==
  [][ RateLimited(resp')
        => /\ resp'.status = 200 => resp'.ip \notin DOMAIN loginAttempts'
           /\ sent[resp'.ip].cleared
                => /\ resp'.handler
                   /\ resp'.status /= 200
                         => /\ resp'.ip \in DOMAIN loginAttempts'
                            /\ loginAttempts'[resp'.ip].attempts = 1 ]_vars

\* a failing request is admitted as the first of a new window, right after a
\* successful login that was the 10th request of its window
C8_Witness ==
  /\ resp.op = "login" /\ resp.ip = ClientAddress /\ resp.status = 401
  /\ sent[ClientAddress].spent /\ sent[ClientAddress].n = 1
  /\ loginAttempts[ClientAddress].attempts = 1
  /\ now < RATE_WINDOW_MS

(***************************************************************************)
(* The authorization gate: the three seeded accounts log in, time passes   *)
(* up to the expiry of an access token, and requests with every kind of    *)
(* Authorization header arrive at the admin and catalog routes.            *)
(***************************************************************************)
SeededAccounts ==
  { NewAdminUser("Admin User", SeededEmail, SeededPassword, "admin", TRUE),
    NewAdminUser("Editor User", AllowedNewEmail, EditorPassword, "editor", TRUE),
    NewAdminUser("Viewer User", ViewerEmail, ViewerPassword, "viewer", TRUE) }

InitGate ==
  /\ now = 0
  /\ adminUsers = SeededAccounts
  /\ loginAttempts = EmptyStore
  /\ resp = NoResp
  /\ failStreak = [ e \in AccountEmails |-> NoStreak ]
  /\ sent = [ i \in Addresses |-> NoneSent ]
  /\ issuedToken = NotIssued
  /\ verified = NotVerified
  /\ auditUp = TRUE
  /\ inflight = NoneInFlight
  /\ trail = NoTrail

GateLoginInputs ==
  { <<SeededEmail, SeededPassword>>, <<AllowedNewEmail, EditorPassword>>,
    <<ViewerEmail, ViewerPassword>> }

\* a token whose payload was edited to the admin role after it was signed
Tampered(token) == [token EXCEPT !.payload.role = "admin"]

\* no header; a header of another scheme; Bearer with a string that is no JWT,
\* with an issued access token, with the seeded account's refresh token, with
\* an edited access token
GateHeaders ==
  { NoHeader, AuthHeader("Bearer", GarbageToken) }
    \cup { AuthHeader("Basic", token) :
             token \in TokensOf(IssuedAccessTokens, SeededEmail) }
    \cup { AuthHeader("Bearer", token) : token \in IssuedAccessTokens }
    \cup { AuthHeader("Bearer", token) :
             token \in TokensOf(IssuedRefreshTokens, SeededEmail) }
    \cup { AuthHeader("Bearer", Tampered(token)) :
             token \in IssuedAccessTokens \ TokensOf(IssuedAccessTokens,
                                                      SeededEmail) }

\* the lifetime of an access token
GateTickMs == JWT_EXPIRY * 1000

GateLogin ==
  \E body \in GateLoginInputs : LoginRequest(ClientAddress, body[1], body[2])

GateRequest ==
  \E route \in GatedRoutes, header \in GateHeaders :
     GatedRequest(ClientAddress, route, header)

GateClock == Tick(GateTickMs, MaxLifetimes * GateTickMs)

NextGate ==
  \/ GateLogin
  \/ GateRequest
  \/ GateClock

SpecGate == InitGate /\ [][NextGate]_vars

\* the header carries a token that the access secret signed and that has not
\* expired
ValidBearer(r) ==
  /\ r.scheme = "Bearer"
  /\ r.tokenIn.wellFormed /\ r.tokenIn.alg = "HS256"
  /\ r.tokenIn.sig = Mac(JWT_SECRET, r.tokenIn.payload)
  /\ now < (r.tokenIn.payload.iat + JWT_EXPIRY) * 1000

\* C5: the handler of a route under /admin runs only for a request whose
\* Authorization header is "Bearer <token>" with an access token of valid
\* signature and expiry whose role is in the route's role set; every other
\* header or token is answered 401, and a valid token whose role is not in the
\* set is answered 403.
C5_GateAdmitsOnlyValidTokenAndRole ==
  resp.op = "gate" /\ IsAdminRoute(resp.route)
    => /\ resp.handler
            <=> ValidBearer(resp) /\ resp.tokenIn.payload.role \in resp.route.roles
       /\ ~ValidBearer(resp) => resp.status = 401
       /\ ValidBearer(resp) /\ resp.tokenIn.payload.role \notin resp.route.roles
            => resp.status = 403

\* an access token the server issued is refused at an /admin route once it has
\* expired
C5_Witness ==
  /\ resp.op = "gate" /\ IsAdminRoute(resp.route) /\ resp.status = 401
  /\ resp.scheme = "Bearer" /\ resp.tokenIn \in IssuedAccessTokens
  /\ now >= JWT_EXPIRY * 1000

\* the gate lets a fresh access token of `role` through to the handler of
\* `route`
Admits(route, role) ==
  gatedHandler(now, ClientAddress, route,
               AuthHeader("Bearer",
                 generateAccessToken("oid", "someone@furniture-mart.com",
                                     role, now))).handler

Admitted(route) == { role \in Roles : Admits(route, role) }

\* a route that admits viewer admits editor and admin, a route that admits
\* editor admits admin
PrivilegeOrder ==
  \A route \in GatedRoutes :
     /\ Admits(route, "viewer") => Admits(route, "editor")
     /\ Admits(route, "editor") => Admits(route, "admin")

AccountManagementIsAdminOnly ==
  \A route \in GatedRoutes :
     route.kind = "accountManagement" => Admitted(route) = {"admin"}

\* C6 as stated: the role sets respect the order admin >= editor >= viewer,
\* every catalog write route (create, update, delete of products and
\* categories) admits exactly admin and editor, and every account-management
\* route admits exactly admin.
C6_AsStated ==
  /\ PrivilegeOrder
  /\ \A route \in GatedRoutes :
        route.kind = "catalogWrite" => Admitted(route) = {"admin", "editor"}
  /\ AccountManagementIsAdminOnly

\* C6, amended: the same, with exactly admin and editor for the create, update
\* and delete routes of products and categories under /admin, and exactly
\* admin for those under /products and /categories and for the bulk delete of
\* products; the product-count update of a category admits every role.
C6_RoleSetsOfRoutes ==
  /\ PrivilegeOrder
  /\ \A route \in GatedRoutes :
        /\ route.kind = "catalogWrite"
             => Admitted(route) = IF IsAdminRoute(route)
                                    THEN {"admin", "editor"}
                                    ELSE {"admin"}
        /\ route.kind = "catalogBulk" => Admitted(route) = {"admin"}
        /\ route.kind = "catalogCount" => Admitted(route) = Roles
  /\ AccountManagementIsAdminOnly

\* the editor, logged in, is refused the creation of a product under /products
\* and allowed it under /admin
C6_Witness ==
  /\ resp.op = "gate" /\ resp.status = 403
  /\ resp.route = Route("POST", "/products", "catalogWrite", adminOnly)
  /\ resp.tokenIn \in TokensOf(IssuedAccessTokens, AllowedNewEmail)
  /\ Admits(Route("POST", "/admin/products", "catalogWrite", editorOrAdmin),
            "editor")

(***************************************************************************)
(* The access token round trip: a token is issued for an account, time     *)
(* passes, and the token, or something made of it, is verified.  The clock *)
(* goes through the instants around the token's expiry.                    *)
(***************************************************************************)
JwtInstants ==
  { 0, 500, JWT_EXPIRY * 1000 - 500, JWT_EXPIRY * 1000 }

\* a token that another key signed
Forged(token) == [token EXCEPT !.sig = Mac("another-secret", token.payload)]

\* the token itself, the token with an edited payload, with another key's
\* signature, the refresh token of the same account, and a string that is no
\* JWT
PresentedTokens ==
  LET p == issuedToken.jwt.payload
  IN { issuedToken.jwt, Tampered(issuedToken.jwt), Forged(issuedToken.jwt),
       generateRefreshToken(p.adminId, p.email, p.role, issuedToken.issuedAt),
       GarbageToken }

JwtIssue ==
  /\ \E d \in adminUsers :
        issuedToken' = [ jwt |-> generateAccessToken(d._id, d.email, d.role, now),
                         issuedAt |-> now ]
  /\ verified' = NotVerified
  /\ UNCHANGED <<now, adminUsers, loginAttempts, resp, failStreak, sent,
                 auditUp, inflight, trail>>

JwtVerify ==
  /\ issuedToken /= NotIssued
  /\ \E token \in PresentedTokens :
        LET call == verifyAccessTokenCall(token, now)
        IN verified' = [ done |-> TRUE, tokenIn |-> token, at |-> now,
                         threw |-> call.threw, value |-> call.value ]
  /\ UNCHANGED <<now, adminUsers, loginAttempts, resp, failStreak, sent,
                 issuedToken, auditUp, inflight, trail>>

JwtClock == \E t \in JwtInstants : t > now /\ Tick(t - now, t)

NextJwt ==
  \/ JwtIssue
  \/ JwtVerify
  \/ JwtClock

SpecJwt == InitGate /\ [][NextJwt]_vars

\* the verified token is the issued one, unchanged
RoundTrip == verified.done /\ verified.tokenIn = issuedToken.jwt

\* the payload returned is the identity the token was issued for
SameIdentity ==
  /\ verified.value /= NullPayload
  /\ \E d \in adminUsers :
        /\ issuedToken.jwt = generateAccessToken(d._id, d.email, d.role,
                                                 issuedToken.issuedAt)
        /\ verified.value.adminId = d._id
        /\ verified.value.email = d.email
        /\ verified.value.role = d.role

\* null, and no exception, for a token that is expired (24 hours or more
\* after it was issued), malformed or badly signed
NullNeverThrows ==
  verified.done
    => /\ ~verified.threw
       /\ \/ ~verified.tokenIn.wellFormed
          \/ verified.tokenIn.sig /= Mac(JWT_SECRET, verified.tokenIn.payload)
          \/ RoundTrip /\ verified.at - issuedToken.issuedAt >= JWT_EXPIRY * 1000
          => verified.value = NullPayload

\* C10 as stated: verifyAccess returns the identity the token was issued for
\* whenever less than 24 hours have elapsed since issuance, and returns null,
\* without throwing, for an expired, malformed or badly signed token.
C10_AsStated ==
  /\ RoundTrip /\ verified.at - issuedToken.issuedAt < JWT_EXPIRY * 1000
       => SameIdentity
  /\ NullNeverThrows

\* C10, amended: the same, with the elapsed time counted between the whole
\* seconds of issuance and of verification.
C10_RoundTripInWholeSeconds ==
  /\ RoundTrip
       /\ (verified.at \div 1000) - (issuedToken.issuedAt \div 1000) < JWT_EXPIRY
       => SameIdentity
  /\ NullNeverThrows

\* a token issued in the middle of a second is verified half a second before
\* its last whole second ends
C10_Witness ==
  /\ RoundTrip /\ SameIdentity
  /\ issuedToken.issuedAt = 500 /\ verified.at = JWT_EXPIRY * 1000 - 500

(***************************************************************************)
(* The two kinds of token, each presented where the other is expected: the *)
(* three seeded accounts log in, and every token in a client's hands is    *)
(* sent as a Bearer token to a gated route and to GET /auth/me, and as the *)
(* body of POST /auth/refresh.                                             *)
(***************************************************************************)
KindRoutes ==
  { route \in AdminRoutes :
      route.method = "GET" /\ route.kind \in {"profile", "accountManagement"} }

KindTokens == IssuedAccessTokens \cup IssuedRefreshTokens

KindLogin ==
  \E body \in GateLoginInputs : LoginRequest(ClientAddress, body[1], body[2])

KindGate ==
  \E route \in KindRoutes, token \in KindTokens :
     GatedRequest(ClientAddress, route, AuthHeader("Bearer", token))

KindRefresh ==
  \E token \in KindTokens : RefreshRequest(ClientAddress, token)

KindMe ==
  \E token \in KindTokens : MeRequest(ClientAddress, AuthHeader("Bearer", token))

KindClock == Tick(GateTickMs, MaxLifetimes * GateTickMs)

NextKind ==
  \/ KindLogin
  \/ KindGate
  \/ KindRefresh
  \/ KindMe
  \/ KindClock

SpecKind == InitGate /\ [][NextKind]_vars

\* C11: access and refresh tokens are not interchangeable: a token that
\* generateRefreshToken issued is never accepted by verifyAccessToken or by
\* the authorization gate, and a token that generateAccessToken issued is
\* never accepted by verifyRefreshToken or by POST /auth/refresh.
C11_TokenKindsNotInterchangeable ==
  /\ \A token \in IssuedRefreshTokens :
        verifyAccessToken(token, now) = NullPayload
  /\ \A token \in IssuedAccessTokens :
        verifyRefreshToken(token, now) = NullPayload
  /\ resp.op = "gate" /\ resp.scheme = "Bearer"
       /\ resp.tokenIn \in IssuedRefreshTokens
       => resp.status = 401 /\ ~resp.handler
  /\ resp.op = "refresh" /\ resp.tokenIn \in IssuedAccessTokens
       => resp.status = 401 /\ NoTokens(resp)

\* POST /auth/refresh has refused an access token that the gate would admit,
\* while a refresh token is in a client's hands that POST /auth/refresh would
\* accept and verifyAccessToken refuses
C11_Witness ==
  /\ resp.op = "refresh" /\ resp.status = 401
  /\ resp.tokenIn \in IssuedAccessTokens
  /\ verifyAccessToken(resp.tokenIn, now) /= NullPayload
  /\ \E token \in IssuedRefreshTokens :
        /\ verifyRefreshToken(token, now) /= NullPayload
        /\ verifyAccessToken(token, now) = NullPayload

(***************************************************************************)
(* The auth endpoints with an audit store that fails and recovers.         *)
(***************************************************************************)
AuditLoginInputs ==
  { <<SeededEmail, SeededPassword>>, <<SeededEmail, WrongPassword>>,
    <<StrangerEmail, WrongPassword>>, <<MalformedEmail, WrongPassword>> }

\* a logout without a header, and one with the seeded account's access token
LogoutHeaders ==
  { NoHeader }
    \cup { AuthHeader("Bearer", token) :
             token \in TokensOf(IssuedAccessTokens, SeededEmail) }

AuditLogin ==
  \E body \in AuditLoginInputs :
     MaySend(ClientAddress, FewRequests)
       /\ LoginRequest(ClientAddress, body[1], body[2])

AuditGoogle ==
  \E idToken \in GoogleTokenInputs :
     MaySend(ClientAddress, FewRequests) /\ GoogleRequest(ClientAddress, idToken)

AuditRefresh ==
  \E refreshToken \in RefreshInputs : RefreshRequest(ClientAddress, refreshToken)

AuditLogout ==
  \E header \in LogoutHeaders : LogoutRequest(ClientAddress, header)

NextAudit ==
  \/ AuditLogin
  \/ AuditGoogle
  \/ AuditRefresh
  \/ AuditLogout
  \/ AuditOutage

SpecAudit == Init /\ [][NextAudit]_vars

\* what the claim compares: the status, the tokens returned, the collection
\* and the rate-limit map
SameOutcome(a, b) ==
  /\ a.resp.status = b.resp.status
  /\ a.resp.accessToken = b.resp.accessToken
  /\ a.resp.refreshToken = b.resp.refreshToken
  /\ a.db = b.db
  /\ a.store = b.store

\* a response as the outcome of a route that writes nothing but audit records
ReadOnly(r) == [ db |-> adminUsers, store |-> loginAttempts, resp |-> r ]

\* C12: for login, refresh, logout and Google login and every input, the
\* status, the tokens returned, the account records and the rate-limit map
\* after the request are the same whether the audit writes of the request
\* succeed or fail, and a failing audit write never ends in a 500.
C12_AuditIsBestEffort ==
  /\ \A body \in AuditLoginInputs :
        LET up == loginRoute(adminUsers, loginAttempts, now, ClientAddress,
                             body[1], body[2], TRUE)
            down == loginRoute(adminUsers, loginAttempts, now, ClientAddress,
                               body[1], body[2], FALSE)
        IN SameOutcome(up, down) /\ down.resp.status /= 500
  /\ \A idToken \in GoogleTokenInputs :
        LET up == googleRoute(adminUsers, loginAttempts, now, ClientAddress,
                              idToken, TRUE)
            down == googleRoute(adminUsers, loginAttempts, now, ClientAddress,
                                idToken, FALSE)
        IN SameOutcome(up, down) /\ down.resp.status /= 500
  /\ \A refreshToken \in RefreshInputs :
        LET up == refreshRoute(adminUsers, now, ClientAddress, refreshToken,
                               TRUE)
            down == refreshRoute(adminUsers, now, ClientAddress, refreshToken,
                                 FALSE)
        IN SameOutcome(ReadOnly(up), ReadOnly(down)) /\ down.status /= 500
  /\ \A header \in LogoutHeaders :
        LET up == logoutRoute(ClientAddress, header, TRUE)
            down == logoutRoute(ClientAddress, header, FALSE)
        IN SameOutcome(ReadOnly(up), ReadOnly(down)) /\ down.status /= 500
  /\ resp.op \in {"login", "google", "refresh", "logout"} => resp.status /= 500

\* a login has returned its two tokens although its audit record could not be
\* written
C12_Witness ==
  /\ ~auditUp
  /\ resp.op = "login" /\ resp.status = 200 /\ resp.audit = << >>
  /\ resp.accessToken /= NoToken /\ resp.refreshToken /= NoToken

\* C13: every answered request to POST /auth/login, /auth/refresh,
\* /auth/logout or /auth/google has appended at least one audit record by the
\* time the response is sent, provided the audit store accepts writes,
\* whatever the outcome: requests blocked by the rate limiter and requests
\* rejected by input validation included.
C13_AsStated ==
  auditUp /\ resp.op \in {"login", "refresh", "logout", "google"}
    => Len(resp.audit) >= 1

\* C14: GET /auth/me sent with a valid Bearer access token of an existing
\* account returns 200 with that account's profile (id, name, email, role,
\* isActive, lastLogin, never the password); 404 is returned only when the
\* token's account no longer exists.
C14_AsStated ==
  resp.op = "me"
    => /\ resp.scheme = "Bearer"
            /\ verifyAccessToken(resp.tokenIn, now) /= NullPayload
            /\ HolderOf(adminUsers, resp.tokenIn) /= NoAdmin
            => /\ resp.status = 200
               /\ resp.data = MeData(HolderOf(adminUsers, resp.tokenIn))
       /\ resp.status = 404 => HolderOf(adminUsers, resp.tokenIn) = NoAdmin

\* the response a client sees: the status and the message of the body
Seen(r) == [ status |-> r.status, message |-> r.message ]

\* the response POST /auth/login would give now to a request from ip
LoginAnswer(ip, rawEmail, password) ==
  loginRoute(adminUsers, loginAttempts, now, ip, rawEmail, password,
             auditUp).resp

\* C15: a login with an unknown email and a login with the email of an
\* existing active unlocked account plus a wrong password receive the same
\* response (same status and same message wording), so that a caller cannot
\* tell from the response whether the account exists.
C15_AsStated ==
  \A d \in adminUsers :
     d.isActive /\ ~d.isLocked /\ FindOne(adminUsers, StrangerEmail) = NoAdmin
       => Seen(LoginAnswer(ClientAddress, StrangerEmail, WrongPassword))
            = Seen(LoginAnswer(ClientAddress, d.email, WrongPassword))

AuthOps == {"login", "refresh", "logout", "google"}

\* the step answers a request to an auth endpoint with 400
Rejects400 == resp'.op \in AuthOps /\ resp'.status = 400

\* the step has counted the request in the rate-limit entry of its address
CountedByLimiter ==
  LET ip == resp'.ip
      open == ip \in DOMAIN loginAttempts /\ ~(loginAttempts[ip].resetTime < now)
  IN /\ ip \in DOMAIN loginAttempts'
     /\ loginAttempts'[ip].attempts
          = IF open THEN loginAttempts[ip].attempts + 1 ELSE 1
     /\ \A other \in DOMAIN loginAttempts \ {ip} :
           other \in DOMAIN loginAttempts'
             /\ loginAttempts'[other] = loginAttempts[other]

\* C16 as stated: a request to an auth endpoint that is rejected with 400
\* touches no state: it creates or modifies no account record, no rate-limit
\* entry and no audit record.
C16_AsStated ==
  [][ Rejects400
        => /\ adminUsers' = adminUsers
           /\ loginAttempts' = loginAttempts
           /\ resp'.audit = << >> ]_vars

\* C16: a request to an auth endpoint that is rejected with 400 creates or
\* modifies no account record; a 400 of POST /auth/refresh touches no
\* rate-limit entry and writes no audit record, a 400 of POST /auth/login or
\* /auth/google has been counted in the rate-limit entry of its address, and a
\* 400 of POST /auth/login writes one audit record (status failed) when the
\* audit store accepts it, a 400 of /auth/google none.
C16_Rejected400KeepsAccounts ==
  [][ Rejects400
        => /\ adminUsers' = adminUsers
           /\ resp'.op = "refresh"
                => loginAttempts' = loginAttempts /\ resp'.audit = << >>
           /\ resp'.op \in {"login", "google"} => CountedByLimiter
           /\ resp'.op = "login"
                => resp'.audit
                     = IF auditUp
                         THEN <<Audit("login_attempt", resp'.email, "failed")>>
                         ELSE << >>
           /\ resp'.op = "google" => resp'.audit = << >> ]_vars

\* a login with a malformed email has been answered 400: it is the second
\* request counted for its address and it has left an audit record
C16_Witness ==
  /\ resp.op = "login" /\ resp.status = 400 /\ resp.email = MalformedEmail
  /\ Len(resp.audit) = 1
  /\ ClientAddress \in DOMAIN loginAttempts
  /\ loginAttempts[ClientAddress].attempts = 2

(***************************************************************************)
(* Two login requests for the seeded account whose executions overlap.     *)
(***************************************************************************)
OverlapInputs ==
  { <<SeededEmail, WrongPassword>>, <<SeededEmail, SeededPassword>>,
    <<MalformedEmail, WrongPassword>> }

\* the second slot is taken while the first is busy
OverlapArrive ==
  \E r \in Slots, body \in OverlapInputs :
     /\ r = "second" => inflight["first"].pc /= "idle"
     /\ MaySend(ClientAddress, MaxBurst)
     /\ Arrive(r, ClientAddress, body[1], body[2])

OverlapFindOne == \E r \in Slots : FindOneDone(r)

OverlapCompare == \E r \in Slots : CompareDone(r)

OverlapSave == \E r \in Slots : SaveDone(r)

OverlapAudit == \E r \in Slots : AuditDone(r)

OverlapRespond == \E r \in Slots : Respond(r)

NextOverlap ==
  \/ OverlapArrive
  \/ OverlapFindOne
  \/ OverlapCompare
  \/ OverlapSave
  \/ OverlapAudit
  \/ OverlapRespond

SpecOverlap == Init /\ [][NextOverlap]_vars

\* the steps of `steps` that are among `names`, in the order of `steps`
Among(steps, names) ==
  LET named(step) == step \in names IN SelectSeq(steps, named)

\* the steps the claim names
ClaimedSteps ==
  { "rateLimit", "findOne", "lockCheck", "comparePassword", "save", "tokens",
    "audit" }

\* the login request of slot r is on the success path and has written its
\* audit record
SuccessAudited(r) ==
  /\ inflight[r].answer.status = 200
  /\ \E i \in DOMAIN inflight[r].answer.steps :
        inflight[r].answer.steps[i] = "audit"

\* C17 as stated: within one successful login request the steps happen in the
\* order rate-limit check, account lookup, lock check, password check, account
\* state update, token issuance, audit write; the success audit record is
\* written after both tokens have been issued.
C17_AsStated ==
  /\ resp.op = "login" /\ resp.status = 200
       => Among(resp.steps, ClaimedSteps)
            = << "rateLimit", "findOne", "lockCheck", "comparePassword",
                 "save", "tokens", "audit" >>
  /\ \A r \in Slots :
        SuccessAudited(r)
          => /\ inflight[r].answer.accessToken /= NoToken
             /\ inflight[r].answer.refreshToken /= NoToken

\* C17: within one successful login request the steps happen in the order
\* rate-limit check, account lookup, lock check, password check, account state
\* update, audit write, token issuance; in every execution the success audit
\* record is written before the tokens are issued.
C17_AuditBeforeTokens ==
  /\ resp.op = "login" /\ resp.status = 200
       => /\ Among(resp.steps, ClaimedSteps)
               = << "rateLimit", "findOne", "lockCheck", "comparePassword",
                    "save", "audit", "tokens" >>
          /\ resp.accessToken /= NoToken /\ resp.refreshToken /= NoToken
  /\ \A r \in Slots :
        SuccessAudited(r)
          => /\ inflight[r].answer.accessToken = NoToken
             /\ inflight[r].answer.refreshToken = NoToken

\* a login has written its success record and holds no token yet, while the
\* other login request is in progress too
C17_Witness ==
  /\ SuccessAudited("first")
  /\ inflight["first"].pc = "respond"
  /\ inflight["first"].answer.audit
       = <<Audit("login_success", SeededEmail, "success")>>
  /\ inflight["first"].answer.accessToken = NoToken
  /\ inflight["second"].pc /= "idle"

\* the step is the save of the wrong-password request in slot r
SavesFailure(r) ==
  /\ inflight[r].pc = "save" /\ inflight'[r].pc = "audit"
  /\ inflight[r].answer.status /= 200

\* the request in slot r has read loginAttempts = n, its password was wrong and
\* its save is done
WroteAfterReading(r, n) ==
  /\ inflight[r].pc \in {"audit", "respond"}
  /\ inflight[r].answer.status \in {401, 423}
  /\ inflight[r].loaded /= NoAdmin
  /\ inflight[r].loaded.loginAttempts = n
  /\ inflight[r].doc.loginAttempts = n + 1

\* C18: the lockout counter update is a read-modify-write that is not atomic:
\* the save of a wrong-password login writes the value the request read at
\* findOne plus one, whatever the stored value has become since, so that of
\* two overlapping wrong-password logins that read the same n both write
\* n + 1 and one increment is lost.
C18_CounterUpdateNotAtomic ==
  [][ \A r \in Slots :
        SavesFailure(r)
          => LET read == inflight[r].loaded
                 stored == FindById(adminUsers', read._id)
             IN stored.loginAttempts
                  = (IF read.isLocked THEN 0 ELSE read.loginAttempts) + 1 ]_vars

\* two wrong-password logins whose executions overlap have both read
\* loginAttempts = 4 and have both saved: the stored counter is 5
C18_Witness ==
  /\ WroteAfterReading("first", LOCK_THRESHOLD - 1)
  /\ WroteAfterReading("second", LOCK_THRESHOLD - 1)
  /\ FindOne(adminUsers, SeededEmail).loginAttempts = LOCK_THRESHOLD

(***************************************************************************)
(* One refresh token used again and again: the seeded account logs in,     *)
(* time passes up to the expiry of a refresh token, and the account is     *)
(* deactivated and reactivated between the refresh requests.               *)
(***************************************************************************)
\* half the lifetime of a refresh token, and half a second less
RenewHalfMs == (REFRESH_TOKEN_EXPIRY * 1000) \div 2

RenewTicks == { RenewHalfMs, RenewHalfMs - 500 }

\* every refresh token issued at a last login, the token used before, and a
\* string that is no JWT
RenewInputs ==
  (IssuedRefreshTokens \cup {trail.refreshed, GarbageToken}) \ {NoToken}

RenewLogin ==
  MaySend(ClientAddress, FewRequests)
    /\ LoginRequest(ClientAddress, SeededEmail, SeededPassword)

RenewRefresh ==
  \E refreshToken \in RenewInputs : TrackedRefresh(ClientAddress, refreshToken)

RenewClock ==
  \E d \in RenewTicks : Tick(d, MaxTicks * RenewHalfMs)

RenewDeactivation == \E b \in BOOLEAN : SetActive(SeededEmail, b)

NextRenew ==
  \/ RenewLogin
  \/ RenewRefresh
  \/ RenewClock
  \/ RenewDeactivation

SpecRenew == Init /\ [][NextRenew]_vars

\* generateRefreshToken issued the token and it has not reached its expiry
LiveRefreshToken(token) ==
  /\ token.wellFormed /\ token.alg = "HS256"
  /\ token.sig = Mac(REFRESH_TOKEN_SECRET, token.payload)
  /\ token.payload.exp = token.payload.iat + REFRESH_TOKEN_EXPIRY
  /\ (now \div 1000) < token.payload.exp

SessionInputs ==
  { <<SeededEmail, SeededPassword>>, <<SeededEmail, WrongPassword>> }

\* one route for the admin role only, one for every authenticated role
SessionRoutes ==
  { route \in AdminRoutes :
      route.method = "GET" /\ route.kind \in {"profile", "accountManagement"} }

SessionLogin ==
  \E body \in SessionInputs :
     MaySend(ClientAddress, StreakCap)
       /\ TrackedLogin(ClientAddress, body[1], body[2])

SessionLogout ==
  /\ issuedToken /= NotIssued
  /\ LogoutRequest(ClientAddress, AuthHeader("Bearer", issuedToken.jwt))

SessionGate ==
  /\ issuedToken /= NotIssued
  /\ \E route \in SessionRoutes :
        GatedRequest(ClientAddress, route, AuthHeader("Bearer", issuedToken.jwt))

SessionRole == \E role \in {"admin", "viewer"} : SetRole(SeededEmail, role)

SessionDeactivation == \E b \in BOOLEAN : SetActive(SeededEmail, b)

SessionClock == Tick(GateTickMs, MaxLifetimes * GateTickMs)

NextSession ==
  \/ SessionLogin
  \/ SessionLogout
  \/ SessionGate
  \/ SessionRole
  \/ SessionDeactivation
  \/ SessionClock

SpecSession == Init /\ [][NextSession]_vars

\* C20: the decision of the authorization gate for an access token is a
\* function of the token and the current time only: an access token that has
\* not expired is admitted with the role it was issued with, to the routes
\* whose role set holds that role, whatever has happened to its account since
\* (a logout, a change of the stored role, a deactivation, a lock).
C20_GateReadsTokenAndTimeOnly ==
  resp.op = "gate" /\ ValidBearer(resp)
    => /\ resp.status
            = IF resp.tokenIn.payload.role \in resp.route.roles THEN 200
                                                                ELSE 403
       /\ resp.handler <=> resp.status = 200
       /\ resp.email = resp.tokenIn.payload.email

\* the gate has admitted, to a route for the admin role only, the token of a
\* login as admin after the client logged out with it, while the account is
\* a viewer, deactivated and locked
C20_Witness ==
  /\ resp.op = "gate" /\ resp.status = 200 /\ resp.handler
  /\ resp.route.roles = adminOnly
  /\ resp.tokenIn = issuedToken.jwt /\ resp.tokenIn.payload.role = "admin"
  /\ trail.loggedOut = resp.tokenIn
  /\ LET d == HolderOf(adminUsers, resp.tokenIn)
     IN d.role = "viewer" /\ ~d.isActive /\ d.isLocked

(***************************************************************************)
(* The rate limiter's own state: what a refused request does to the entry  *)
(* of its address, how a window ends, and what the 429 message promises.   *)
(***************************************************************************)
\* C21: a request that the rate limiter answers 429 changes no state: the
\* entry of its address keeps its attempt count and its reset time, and no
\* account is read for an update or changed.
C21_AsStated ==
  [][ RateLimited(resp') /\ resp'.status = 429
        => /\ loginAttempts' = loginAttempts
           /\ adminUsers' = adminUsers ]_vars

\* one minute, the unit of the 429 message
MinuteMs == 60000

\* half a window, one millisecond more, and eight minutes: the clock reaches
\* the last millisecond of a window, the first one after it, and the minute
\* a 429 answer given half-way through the window has announced
WindowTicks == { RATE_WINDOW_MS \div 2, RATE_WINDOW_MS \div 2 + 1, 8 * MinuteMs }

WindowHorizon == MaxTicks * (RATE_WINDOW_MS \div 2) + MinuteMs \div 2

\* a refused address may send one request more: the one after the 429
WindowInputs ==
  { <<StrangerEmail, WrongPassword>>, <<SeededEmail, SeededPassword>> }

WindowLogin ==
  \E body \in WindowInputs :
     MaySend(ClientAddress, MaxBurst + 1)
       /\ LimitedLogin(ClientAddress, body[1], body[2])

WindowGoogle ==
  MaySend(ClientAddress, MaxBurst + 1)
    /\ LimitedGoogle(ClientAddress, GoogleIdToken("invalid", "-"))

WindowClock == \E d \in WindowTicks : Tick(d, WindowHorizon)

NextWindow ==
  \/ WindowLogin
  \/ WindowGoogle
  \/ WindowClock

SpecWindow == Init /\ [][NextWindow]_vars

\* the requests of ip passed on to a handler from the i-th one on and less
\* than a window's length after it
PassedWithinWindowFrom(ip, i) ==
  { j \in DOMAIN trail.passed[ip] :
      j >= i /\ trail.passed[ip][j] < trail.passed[ip][i] + RATE_WINDOW_MS }

\* C22: for every address and every interval of 15 minutes without a
\* successful login from the address, at most 10 requests of the address are
\* passed on to the login and Google handlers.
C22_AsStated ==
  \A ip \in Addresses :
     \A i \in DOMAIN trail.passed[ip] :
        Cardinality(PassedWithinWindowFrom(ip, i)) <= RATE_MAX_REQUESTS

\* the entry of the address of request r, as the request found it, had
\* expired
FoundExpired(r) ==
  /\ r.ip \in DOMAIN loginAttempts
  /\ loginAttempts[r.ip].resetTime < now

\* C23: an entry whose window has expired is discarded at the next request
\* of its address and by nothing else: that request is passed on to its
\* handler whatever the old count was, and unless it is a successful login
\* (which deletes the entry) it leaves a new window with count 1; a step
\* that is no request of the address leaves the entry as it is.
C23_ExpiredWindowIsReplaced ==
  [][ /\ RateLimited(resp') /\ FoundExpired(resp')
         => /\ resp'.handler /\ resp'.status /= 429
            /\ resp'.status /= 200
                 => /\ resp'.ip \in DOMAIN loginAttempts'
                    /\ loginAttempts'[resp'.ip]
                         = [ attempts |-> 1,
                             resetTime |-> now + RATE_WINDOW_MS ]
      /\ ~RateLimited(resp') => loginAttempts' = loginAttempts ]_vars

\* a failing login is passed on, as the first request of a new window, after
\* the request before it was answered 429 in a window that has expired since
C23_Witness ==
  /\ resp.op = "login" /\ resp.ip = ClientAddress /\ resp.status = 401
  /\ resp.handler
  /\ trail.followed[ClientAddress] /= NotRefused
  /\ Len(trail.passed[ClientAddress]) = RATE_MAX_REQUESTS + 1
  /\ loginAttempts[ClientAddress]
       = [ attempts |-> 1, resetTime |-> now + RATE_WINDOW_MS ]

\* C30: a client that was answered 429 with "try again in N minutes" and
\* sends its next request exactly N minutes later, with no request from its
\* address in between, is passed on by the rate limiter.
C30_AsStated ==
  \A ip \in Addresses :
     /\ RateLimited(resp) /\ resp.ip = ip
     /\ trail.followed[ip] /= NotRefused
     /\ now = trail.followed[ip].at + trail.followed[ip].minutes * MinuteMs
     => resp.handler /\ resp.status /= 429

(***************************************************************************)
(* Login attempts that end before the password is compared.                *)
(***************************************************************************)
\* the account a login request r is for, as the request finds it
FoundBy(r) == FindOne(adminUsers, NormalizeEmail(r.email))

\* request r passed the rate limiter and the validators
ReachedLookup(r) ==
  r.op = "login" /\ r.handler /\ r.status \notin {400, 429, 500}

\* C24: a login attempt that is rejected before the password check, for an
\* unknown email (401), an inactive account (403) or an account whose lock
\* has not expired (423), leaves every account record as it was:
\* loginAttempts, isLocked and lockedUntil keep their values.
C24_EarlyRejectionKeepsAccounts ==
  [][ ReachedLookup(resp')
        => LET d == FoundBy(resp')
           IN /\ d = NoAdmin
                   => resp'.status = 401 /\ adminUsers' = adminUsers
              /\ d /= NoAdmin /\ ~d.isActive
                   => resp'.status = 403 /\ adminUsers' = adminUsers
              /\ d /= NoAdmin /\ d.isActive /\ d.isLocked
                   /\ d.lockedUntil > now
                   => /\ resp'.status = 423 /\ NoTokens(resp')
                      /\ adminUsers' = adminUsers ]_vars

\* an attempt with the right password, half-way through the lock, has been
\* answered 423 and the lock still ends when it was set to end
C24_Witness ==
  /\ resp.op = "login" /\ resp.status = 423 /\ resp.handler
  /\ resp.pw = SeededPassword
  /\ resp.message.text = "Account is locked. Try again in {n} minutes"
  /\ now > 0
  /\ \E d \in adminUsers :
        /\ d.email = resp.email /\ d.isActive /\ d.isLocked
        /\ d.loginAttempts = LOCK_THRESHOLD
        /\ d.lockedUntil > now /\ d.lockedUntil < now + LOCK_MS

(***************************************************************************)
(* A locked account at the three endpoints that issue tokens: the seeded   *)
(* account logs in, is locked by five wrong passwords, and then signs in   *)
(* with Google and presents its refresh token while the lock lasts.        *)
(***************************************************************************)
LockedInputs ==
  { <<SeededEmail, SeededPassword>>, <<SeededEmail, WrongPassword>> }

LockedLogin ==
  \E body \in LockedInputs :
     MaySend(ClientAddress, StreakCap)
       /\ LoginRequest(ClientAddress, body[1], body[2])

LockedGoogle ==
  MaySend(ClientAddress, StreakCap)
    /\ GoogleRequest(ClientAddress, GoogleIdToken("verified", SeededEmail))

LockedRefresh ==
  \E refreshToken \in IssuedRefreshTokens :
     RefreshRequest(ClientAddress, refreshToken)

LockedClock == Tick(TickMs, MaxTicks * TickMs)

NextLocked ==
  \/ LockedLogin
  \/ LockedGoogle
  \/ LockedRefresh
  \/ LockedClock

SpecLocked == Init /\ [][NextLocked]_vars

\* the account is locked and its lock has not expired
LockHeld(d) == d /= NoAdmin /\ d.isLocked /\ d.lockedUntil > now

\* the tokens of a response
TokensIn(r) == {r.accessToken, r.refreshToken} \ {NoToken}

\* C25 as stated: no endpoint issues an access or refresh token for an
\* account while that account is locked (isLocked and lockedUntil in the
\* future): password login, Google login and refresh all refuse it.
C25_AsStated ==
  [][ \A token \in TokensIn(resp') :
         ~LockHeld(HolderOf(adminUsers, token)) ]_vars

LoginRefusesLocked ==
  resp'.op = "login"
    => \A token \in TokensIn(resp') : ~LockHeld(HolderOf(adminUsers, token))

GoogleAdmitsLocked ==
  \A e \in Emails :
     LET d == FindOne(adminUsers, e)
     IN LockHeld(d) /\ d.isActive
          /\ GoogleRequest(ClientAddress, GoogleIdToken("verified", e))
          /\ resp'.handler
        => /\ resp'.status = 200
           /\ resp'.accessToken /= NoToken /\ resp'.refreshToken /= NoToken

RefreshAdmitsLocked ==
  \A refreshToken \in IssuedRefreshTokens :
     LET decoded == verifyRefreshToken(refreshToken, now)
         d == FindById(adminUsers, decoded.adminId)
     IN decoded /= NullPayload /\ LockHeld(d) /\ d.isActive
          /\ RefreshRequest(ClientAddress, refreshToken)
        => resp'.status = 200 /\ resp'.accessToken /= NoToken

\* C25: password login issues no token for an account while that account is
\* locked; Google login and token refresh check only isActive, and both
\* issue tokens for an active account while it is locked.
C25_OnlyPasswordLoginHonoursLock ==
  [][ /\ LoginRefusesLocked
      /\ GoogleAdmitsLocked
      /\ RefreshAdmitsLocked ]_vars

\* the refresh token of a locked account has been exchanged for an access
\* token while the lock lasts
C25_Witness ==
  /\ resp.op = "refresh" /\ resp.status = 200 /\ resp.accessToken /= NoToken
  /\ LockHeld(HolderOf(adminUsers, resp.tokenIn))
  /\ HolderOf(adminUsers, resp.tokenIn).loginAttempts = LOCK_THRESHOLD

(***************************************************************************)
(* One login request, await by await, while other requests for the same    *)
(* account run from start to end between two of its awaits: logins with a  *)
(* wrong password, Google sign-ins, and the clock up to the end of a lock.  *)
(***************************************************************************)
StaleInputs ==
  { <<SeededEmail, SeededPassword>>, <<SeededEmail, WrongPassword>> }

\* the request that is followed await by await, from another address
StaleArrive ==
  \E body \in StaleInputs :
     MaySend(OtherAddress, FewRequests)
       /\ Arrive("first", OtherAddress, body[1], body[2])

StaleFindOne == FindOneDone("first")

StaleCompare == CompareDone("first")

StaleSave == SaveDone("first")

StaleAudit == AuditDone("first")

StaleRespond == Respond("first")

\* a whole login with a wrong password
StaleFailure ==
  MaySend(ClientAddress, StreakCap)
    /\ LoginRequest(ClientAddress, SeededEmail, WrongPassword)

\* a whole Google sign-in
StaleGoogle ==
  MaySend(ClientAddress, StreakCap)
    /\ GoogleRequest(ClientAddress, GoogleIdToken("verified", SeededEmail))

StaleClock == Tick(TickMs, MaxTicks * TickMs)

NextStale ==
  \/ StaleArrive
  \/ StaleFindOne
  \/ StaleCompare
  \/ StaleSave
  \/ StaleAudit
  \/ StaleRespond
  \/ StaleFailure
  \/ StaleGoogle
  \/ StaleClock

SpecStale == Init /\ [][NextStale]_vars

\* C26: in every reachable state of every stored account, also when requests
\* for the account overlap, loginAttempts is an integer in 0..5, isLocked
\* implies that lockedUntil is not null, and an account that is not locked
\* has loginAttempts <= 4 and lockedUntil = null.
C26_AsStated ==
  \A d \in adminUsers :
     /\ d.loginAttempts \in 0..LOCK_THRESHOLD
     /\ d.isLocked => d.lockedUntil /= NullDate
     /\ ~d.isLocked
          => d.loginAttempts <= LOCK_THRESHOLD - 1 /\ d.lockedUntil = NullDate

(***************************************************************************)
(* Two login requests with a wrong password at a time, await by await, and *)
(* nothing that resets the counter: no correct password, and no clock, so  *)
(* that no lock expires.                                                   *)
(***************************************************************************)
RaceArrive ==
  \E r \in Slots :
     MaySend(ClientAddress, MaxBurst)
       /\ Arrive(r, ClientAddress, SeededEmail, WrongPassword)

RaceFindOne == \E r \in Slots : FindOneDone(r)

RaceCompare == \E r \in Slots : CountedCompare(r)

RaceSave == \E r \in Slots : SaveDone(r)

RaceAudit == \E r \in Slots : AuditDone(r)

RaceRespond == \E r \in Slots : Respond(r)

NextRace ==
  \/ RaceArrive
  \/ RaceFindOne
  \/ RaceCompare
  \/ RaceSave
  \/ RaceAudit
  \/ RaceRespond

SpecRace == Init /\ [][NextRace]_vars

\* C27: for every interleaving of login requests, at most 5 wrong passwords
\* are compared against an account between two resets of its counter: once
\* 5 wrong passwords have been evaluated, no further password is evaluated
\* until the lock has expired.
C27_AsStated == trail.compared <= LOCK_THRESHOLD

(***************************************************************************)
(* A refresh token across a change of its account's role: the seeded       *)
(* account logs in, the client keeps the refresh token, the stored role is *)
(* changed, and the token is presented to POST /auth/refresh.              *)
(***************************************************************************)
RoleLogin ==
  MaySend(ClientAddress, FewRequests)
    /\ KeptRefreshLogin(ClientAddress, SeededEmail, SeededPassword)

RoleChange == \E role \in Roles : SetRole(SeededEmail, role)

RoleRefresh ==
  \E refreshToken \in {issuedToken.jwt, GarbageToken} \ {NoToken} :
     RefreshRequest(ClientAddress, refreshToken)

RoleClock == Tick(TickMs, MaxTicks * TickMs)

NextRole ==
  \/ RoleLogin
  \/ RoleChange
  \/ RoleRefresh
  \/ RoleClock

SpecRole == Init /\ [][NextRole]_vars

\* C28: the access token that POST /auth/refresh returns carries the email
\* and the role stored on the account at the time of the refresh, not those
\* of the refresh token presented: after a change of the account's role the
\* next refresh yields an access token with the new role.
C28_RefreshReadsStoredRole ==
  resp.op = "refresh" /\ resp.status = 200
    => LET holder == HolderOf(adminUsers, resp.tokenIn)
           decoded == verifyAccessToken(resp.accessToken, now)
       IN /\ holder /= NoAdmin /\ decoded /= NullPayload
          /\ decoded.adminId = holder._id
          /\ decoded.email = holder.email
          /\ decoded.role = holder.role

\* a refresh token issued to the account as admin has been exchanged, after
\* the account became a viewer, for an access token with the role viewer
C28_Witness ==
  /\ resp.op = "refresh" /\ resp.status = 200
  /\ resp.tokenIn = issuedToken.jwt
  /\ resp.tokenIn.payload.role = "admin"
  /\ verifyAccessToken(resp.accessToken, now).role = "viewer"
  /\ HolderOf(adminUsers, resp.tokenIn).role = "viewer"

(***************************************************************************)
(* Two Google sign-ins at a time, await by await: an allow-listed identity *)
(* without an account, an identity that is not allow-listed, and the       *)
(* seeded account.                                                         *)
(***************************************************************************)
FirstInputs ==
  { GoogleIdToken("verified", e) :
      e \in {AllowedNewEmail, StrangerEmail, SeededEmail} }
    \cup { GoogleIdToken("invalid", "-") }

FirstArrive ==
  \E r \in Slots, idToken \in FirstInputs :
     MaySend(ClientAddress, FewRequests + 1)
       /\ GoogleArrive(r, ClientAddress, idToken)

FirstFindOne == \E r \in Slots : GoogleFindOneDone(r)

FirstInsert == \E r \in Slots : GoogleInsertDone(r)

FirstSave == \E r \in Slots : GoogleSaveDone(r)

FirstRespond == \E r \in Slots : GoogleRespond(r)

NextFirst ==
  \/ FirstArrive
  \/ FirstFindOne
  \/ FirstInsert
  \/ FirstSave
  \/ FirstRespond

SpecFirst == Init /\ [][NextFirst]_vars

\* request r found no account for its identity and constructed one
Constructed(r) ==
  \E i \in DOMAIN inflight[r].answer.steps :
     inflight[r].answer.steps[i] = "create"

\* the accounts stored for an email
AccountsOf(email) == { d \in adminUsers : d.email = email }

\* the document request r constructed is in the collection
Stored(r) == \E d \in adminUsers : d._id = inflight[r].doc._id

\* C29: there is at most one account per email address, also when two
\* first Google sign-ins of one allow-listed identity overlap: exactly one
\* account is created, the request whose save is refused is answered with an
\* error and gets no token, the other one is answered 200.
C29_OneAccountPerEmail ==
  /\ \A d1 \in adminUsers, d2 \in adminUsers : d1.email = d2.email => d1 = d2
  /\ \A r \in Slots :
        Constructed(r) /\ inflight[r].pc \in {"googleSave", "googleRespond"}
          => /\ Cardinality(AccountsOf(inflight[r].rawEmail)) = 1
             /\ inflight[r].pc = "googleRespond"
                  => IF Stored(r)
                       THEN /\ inflight[r].answer.status = 200
                            /\ ~NoTokens(inflight[r].answer)
                       ELSE /\ inflight[r].answer.status = 401
                            /\ NoTokens(inflight[r].answer)

\* both requests found no account for the allow-listed identity and
\* constructed one; one document is stored and its request has its tokens,
\* the other request has the error and no token
C29_Witness ==
  /\ \A r \in Slots :
        /\ inflight[r].pc = "googleRespond" /\ Constructed(r)
        /\ inflight[r].rawEmail = AllowedNewEmail
  /\ Stored("second") /\ ~Stored("first")
  /\ inflight["second"].answer.status = 200
  /\ inflight["first"].answer.status = 401
  /\ NoTokens(inflight["first"].answer)
  /\ Cardinality(AccountsOf(AllowedNewEmail)) = 1

====
